---------------------------- MODULE Spec2Model ----------------------------
(***************************************************************************)
(* Model of mpdris2-rs: the MPD state server (src/mpd/stateserver.rs), the *)
(* MPD client connection (src/mpd/client.rs), the snapshot type           *)
(* (src/mpd/types.rs) and the consumers of the change-event channel.      *)
(*                                                                         *)
(* Every `.await` of the source is a point where another task may run, so *)
(* every handler is cut into one step per await.  A command on a          *)
(* connection is two steps: the write of the request and the read of the  *)
(* response.                                                               *)
(***************************************************************************)
EXTENDS Integers, Sequences, FiniteSets, TLC

(* ------------------------------ bounds -------------------------------- *)
\* backend changes of the player status that the model lets happen
MaxChanges == 1
\* connection drops and ACK answers that the model lets happen
MaxFaults == 2
\* consecutive failing reconnect attempts of one reconnect_until_success
MaxRefuse == 2
\* calls made by the D-Bus side into MpdStateServer
MaxCalls == 1
\* largest size, in bytes, a cover picture is declared with
MaxSize == 3
\* event receivers that may subscribe
NumSubs == 2
\* backend changes, calls of update_status() and faulty responses in the
\* specification of the refreshes of one caller
ArtChanges == 2
ArtCalls == 2
ArtFaults == 1
\* calls of ready() in the specification of the channel: ready() sends seven
\* events, so the channel's capacity is exceeded in the eighth call
BusCalls == 8

(* --------------------------- program constants ------------------------ *)
\* channel(50)
Capacity == 50

IDLE_CMD == "idle stored_playlist playlist player mixer options"

(* ------------------------------ options ------------------------------- *)
None == <<>>
Some(x) == <<x>>
IsSome(o) == o # <<>>
Unwrap(o) == o[1]

(* ------------------------------ the backend --------------------------- *)
Volumes == {10, 20}
\* (playlist position, song id)
Songs == {<<0, 1>>, <<1, 1>>, <<0, 2>>}

InitialStatus ==
  [state |-> "stop", elapsed |-> 0, repeat |-> 0, single |-> 0, random |-> 0,
   volume |-> 10, song |-> None, nextsong |-> None, playlistlength |-> 1]

\* The changes MPD can make to its status, each with the idle subsystem it
\* reports the change under.
BackendChanges(m) ==
  { <<[m EXCEPT !.state = s], "player">> : s \in {"play", "pause", "stop"} \ {m.state} }
  \cup { <<[m EXCEPT !.elapsed = 1 - @], "player">> : x \in {y \in {1} : m.state # "stop"} }
  \cup { <<[m EXCEPT !.song = Some(s)], "player">> : s \in Songs \ {q \in Songs : m.song = Some(q)} }
  \cup { <<[m EXCEPT !.song = None], "player">> : x \in {y \in {1} : IsSome(m.song)} }
  \cup { <<[m EXCEPT !.nextsong = IF IsSome(@) THEN None ELSE Some(<<1, 2>>)], "player">> }
  \cup { <<[m EXCEPT !.volume = v], "mixer">> : v \in Volumes \ {m.volume} }
  \cup { <<[m EXCEPT !.repeat = 1 - @], "options">>,
         <<[m EXCEPT !.single = 1 - @], "options">>,
         <<[m EXCEPT !.random = 1 - @], "options">> }
  \cup { <<[m EXCEPT !.playlistlength = 3 - @], "playlist">>,
         <<m, "stored_playlist">> }

\* The order in which an idle response lists the changed subsystems.
SubsystemOrder == <<"stored_playlist", "playlist", "player", "mixer", "options">>

\* the fields of an idle response: one `changed: <subsystem>` per subsystem
ChangedFields(p) ==
  LET names == SelectSeq(SubsystemOrder, LAMBDA s : s \in p)
  IN [i \in 1..Len(names) |-> <<"changed", names[i]>>]

\* the name of the field is not looked at
SubsystemAnyName(f) == f[2]

\* idle(), lines 140-141: the value of a field named changed is matched; a
\* field of another name matches nothing
Subsystem(f) == IF f[1] = "changed" THEN f[2] ELSE ""

(* ------------------------------ snapshots ----------------------------- *)
mpd_num_to_bool(i) == i = 1

from_mpd(repeat, single) ==
  IF mpd_num_to_bool(repeat) /\ mpd_num_to_bool(single) THEN "Track"
  ELSE IF mpd_num_to_bool(repeat) /\ ~mpd_num_to_bool(single) THEN "Playlist"
  ELSE "None"

\* MpdState::from(status, metadata) for a status response that has every
\* mandatory field.
MpdStateFrom(status, metadata) ==
  [playback_state |->
      IF status.state = "play" THEN [kind |-> "Playing", elapsed |-> status.elapsed]
      ELSE IF status.state = "pause" THEN [kind |-> "Paused", elapsed |-> status.elapsed]
      ELSE [kind |-> "Stopped", elapsed |-> 0],
   loop_state |-> from_mpd(status.repeat, status.single),
   random |-> mpd_num_to_bool(status.random),
   volume |-> status.volume,
   song |-> status.song,
   next_song |-> status.nextsong,
   playlistlength |-> status.playlistlength,
   current_song |-> metadata,
   album_art |-> None]

\* elapsed and duration are never asked for
MandatoryAlways(status, lacks) == {"state", "repeat", "single", "random", "volume"}

\* the fields get_or_complain is called for: elapsed and duration only when
\* the state read is play or pause (an absent state reads as "")
Mandatory(status, lacks) ==
  {"state", "repeat", "single", "random", "volume"}
    \cup (IF "state" \notin lacks /\ status.state \in {"play", "pause"}
          THEN {"elapsed", "duration"} ELSE {})

\* missing_fields of MpdState::from for a status response that lacks the
\* fields `lacks`
missing_fields(status, lacks) == lacks \cap Mandatory(status, lacks)

\* every absent field is taken as its default value
FromOkAlways(status, lacks) == TRUE

\* MpdState::from returns Ok: no bail! for missing fields
FromOk(status, lacks) == missing_fields(status, lacks) = {}

\* the fields a status response of the backend may come without
Lackable == {"state", "volume", "duration"}

\* what a status response lacks: nothing, or one of the fields above
StatusLacks(f) == {{}} \cup (IF f > 0 THEN {{x} : x \in Lackable} ELSE {})

\* std::mem::discriminant of the playback state
discriminant(p) == p.kind

EventOrder == <<"Playback", "Loop", "Shuffle", "Song", "NextSong", "Volume">>

Differs(k, new, old) ==
  CASE k = "Playback" -> discriminant(new.playback_state) # discriminant(old.playback_state)
    [] k = "Loop" -> new.loop_state # old.loop_state
    [] k = "Shuffle" -> new.random # old.random
    [] k = "Song" -> new.song # old.song
    [] k = "NextSong" -> new.next_song # old.next_song
    [] k = "Volume" -> new.volume # old.volume

\* the events update_status sends for the pair (new, old), in sending order
DiffEvents(new, old) == SelectSeq(EventOrder, LAMBDA k : Differs(k, new, old))

ReadyEvents == <<"Playback", "Loop", "Shuffle", "Volume", "Song", "NextSong", "Tracklist">>


(* ------------------------------- state -------------------------------- *)
Callers == {"c1"}
\* two method calls of PlayerInterface that zbus serves at the same time
Handlers == {"h1", "h2"}
Refreshers == {"idle"} \cup Callers
Tasks == {"ping", "idle"} \cup Callers \cup Handlers
Subs == 1..NumSubs
Conns == {"query", "idle"}
NoTask == "nobody"

VARIABLES
  mpd,       \* the backend's player status
  pending,   \* subsystems changed since the idle connection last reported
  changes,   \* backend changes the model still lets happen
  faults,    \* connection drops and ACK answers the model still lets happen
  alive,     \* per connection: the stream is usable
  qlock,     \* holder of the query_client mutex
  slock,     \* holder of the Arc<Mutex<MpdStateServer>> of the D-Bus side
  state,     \* the shared snapshot, Arc<RwLock<MpdState>>
  rids,      \* number of refreshes started so far; a refresh is named by its number
  written,   \* the refreshes that wrote the shared snapshot, in the order of the writes
  lastNew,   \* the snapshot built by the refresh that made the latest write
  files,     \* the cover-art files that exist, by song id
  bus,       \* the broadcast channel: retained events and number sent
  sub,       \* per receiver: subscribed, cursor, the event in hand
  calls,     \* calls of the D-Bus side the model still lets happen
  pc,        \* per task: its position
  loc        \* per task: its local variables

vars == <<mpd, pending, changes, faults, alive, qlock, slock,
          state, rids, written, lastNew, files, bus, sub, calls, pc, loc>>

backendVars == <<mpd, pending, changes>>
snapVars == <<state, rids, written, lastNew>>
lockVars == <<qlock, slock>>
ioVars == <<alive, faults>>

NoLoc ==
  [op |-> "", io |-> "none", todo |-> <<>>, status |-> None, new |-> None,
   old |-> None, art |-> None, size |-> 0, bsize |-> 0, offset |-> 0, data |-> <<>>,
   artres |-> "", ev |-> <<>>, sent |-> None, rid |-> 0,
   res |-> "", first |-> "", sends |-> 0, reconns |-> 0,
   first_retry |-> FALSE, att |-> 0, fails |-> 0, firstLog |-> 0, laterLog |-> 0,
   lacks |-> {}, bad |-> FALSE,
   input |-> <<>>, r |-> <<>>, fields |-> <<>>, binary |-> None, len |-> 0,
   e |-> "", arg |-> None, out |-> None, before |-> {},
   reading |-> FALSE, stale |-> <<>>, cut |-> 0]

NoSub == [on |-> FALSE, next |-> 0, phase |-> "recv", lastSeq |-> 0, lastRid |-> 0,
          lagged |-> FALSE]

\* MpdStateServer::init has run: both connections are open, the snapshot is
\* built from the first status response, the channel has no receiver, and
\* the two background tasks are spawned.
Init ==
  /\ mpd = InitialStatus
  /\ pending = {}
  /\ changes = MaxChanges
  /\ faults = MaxFaults
  /\ alive = [c \in Conns |-> TRUE]
  /\ qlock = NoTask
  /\ slock = NoTask
  /\ state = MpdStateFrom(InitialStatus, None)
  /\ rids = 0
  /\ written = <<>>
  /\ lastNew = MpdStateFrom(InitialStatus, None)
  /\ files = {}
  /\ bus = [buf |-> <<>>, tail |-> 0]
  /\ sub = [s \in Subs |-> NoSub]
  /\ calls = MaxCalls
  /\ pc = [t \in Tasks |-> IF t = "ping" THEN "p_sleep"
                           ELSE IF t = "idle" THEN "i_idle" ELSE "c_idle"]
  /\ loc = [t \in Tasks |-> NoLoc]

(* ---------------------------- the backend ----------------------------- *)
\* MPD changes its status (a client's command, the end of a song).
BackendChange ==
  /\ changes > 0
  /\ \E ch \in BackendChanges(mpd) :
       /\ mpd' = ch[1]
       /\ pending' = IF alive["idle"] THEN pending \cup {ch[2]} ELSE pending
  /\ changes' = changes - 1
  /\ UNCHANGED <<ioVars, lockVars, snapVars, files, bus, sub, calls, pc, loc>>

\* The stream of a connection breaks.
Drop(c) ==
  /\ faults > 0
  /\ alive[c]
  /\ alive' = [alive EXCEPT ![c] = FALSE]
  /\ faults' = faults - 1
  /\ UNCHANGED <<backendVars, lockVars, snapVars, files, bus, sub, calls, pc, loc>>

(* --------------------------- MpdClient -------------------------------- *)
\* the connection a task talks on at its current position: the idle task
\* passes its own client to idle() and to update_status(); the methods of
\* MpdStateServer pass the query client
ConnOf(t) == IF t = "idle" THEN "idle" ELSE "query"

\* the positions at which a task is inside MpdClient::issue_command
CmdAt(t) ==
  CASE pc[t] = "p_ping" -> "ping"
    [] pc[t] = "i_idle" -> IDLE_CMD
    [] pc[t] \in {"m_cmd1", "m_cmd2"} -> "passthrough"
    [] pc[t] \in {"us_status", "in_status"} -> "status"
    [] pc[t] \in {"us_song", "art_song"} -> "currentsong"
    [] pc[t] \in {"art_read", "art_more"} -> "readpicture"
    [] pc[t] \in {"art_alb", "art_albmore"} -> "albumart"
    [] OTHER -> ""

\* MpdClient::issue_command, first half: write_all and flush of the request
IssueWrite(t) ==
  /\ CmdAt(t) # ""
  /\ loc[t].io = "none"
  /\ loc' = [loc EXCEPT ![t].io = "sent"]
  /\ UNCHANGED <<backendVars, ioVars, lockVars, snapVars, files, bus, sub, calls, pc>>

\* the outcomes read_response can have for a request on connection c:
\* the framed response, an I/O error, or an ACK line
Outcomes(c) ==
  IF ~alive[c] THEN {"io"}
  ELSE {"ok"} \cup (IF faults > 0 THEN {"ack"} ELSE {})

\* MpdClient::issue_command, second half: read_response ends the cycle
ReadDone(t, o) ==
  /\ faults' = IF o = "ack" THEN faults - 1 ELSE faults
  /\ UNCHANGED alive

Reading(t, p) == pc[t] = p /\ loc[t].io = "sent"

\* the requests written on connection c whose response is not read yet
InFlight(c) == {t \in Tasks : ConnOf(t) = c /\ loc[t].io = "sent"}

\* entry of MpdClient::reconnect_until_success
EnterReconnect(l) ==
  [l EXCEPT !.io = "none", !.first_retry = TRUE, !.att = 0, !.fails = 0,
            !.firstLog = 0, !.laterLog = 0]


\* first_retry is never cleared: every failure is logged as the first one
LogFailureAlwaysFirst(l) ==
  IF l.first_retry
  THEN [l EXCEPT !.firstLog = @ + 1]
  ELSE [l EXCEPT !.laterLog = @ + 1]

\* the failure arm of the loop of reconnect_until_success: the first failure
\* is logged with error!, the later ones with debug!
LogFailure(l) ==
  IF l.first_retry
  THEN [l EXCEPT !.firstLog = @ + 1, !.first_retry = FALSE]
  ELSE [l EXCEPT !.laterLog = @ + 1]

\* MpdClient::reconnect fails (connect refused, or the greeting unreadable);
\* the loop sleeps RETRY_INTERVAL and tries again
ReconnectFail(t) ==
  /\ pc[t] = "rc"
  /\ loc[t].fails < MaxRefuse
  /\ loc' = [loc EXCEPT ![t] = LogFailure([@ EXCEPT !.att = @ + 1, !.fails = @ + 1])]
  /\ UNCHANGED <<backendVars, ioVars, lockVars, snapVars, files, bus, sub, calls, pc>>

\* MpdClient::reconnect succeeds: the stream is replaced, the greeting read
ReconnectOk(t) ==
  /\ pc[t] = "rc"
  /\ alive' = [alive EXCEPT ![ConnOf(t)] = TRUE]
  /\ pending' = IF ConnOf(t) = "idle" THEN {} ELSE pending
  /\ loc' = [loc EXCEPT ![t].att = @ + 1]
  /\ pc' = [pc EXCEPT ![t] = "rc_done"]
  /\ UNCHANGED <<mpd, changes, faults, lockVars, snapVars, files, bus, sub, calls>>

(* --------------------------- the query mutex -------------------------- *)
\* a lock that lets everybody in
LockFreeAlways(holder) == TRUE

\* Mutex::lock resolves only when nobody holds the mutex
LockFree(holder) == holder = NoTask

(* --------------------------- the ping task ---------------------------- *)
\* qc2.lock().await after the sleep
PingLock ==
  /\ pc["ping"] = "p_sleep"
  /\ LockFree(qlock)
  /\ qlock' = "ping"
  /\ pc' = [pc EXCEPT !["ping"] = "p_ping"]
  /\ UNCHANGED <<backendVars, ioVars, slock, snapVars, files, bus, sub, calls, loc>>

\* the guard is kept over the sleep
PingOkKeepsGuard ==
  /\ Reading("ping", "p_ping")
  /\ "ok" \in Outcomes("query")
  /\ ReadDone("ping", "ok")
  /\ pc' = [pc EXCEPT !["ping"] = "p_sleep"]
  /\ loc' = [loc EXCEPT !["ping"] = NoLoc]
  /\ UNCHANGED <<backendVars, lockVars, snapVars, files, bus, sub, calls>>

\* the ping is answered: drop(client), sleep(PING_INTERVAL)
PingOk ==
  /\ Reading("ping", "p_ping")
  /\ "ok" \in Outcomes("query")
  /\ ReadDone("ping", "ok")
  /\ qlock' = NoTask
  /\ pc' = [pc EXCEPT !["ping"] = "p_sleep"]
  /\ loc' = [loc EXCEPT !["ping"] = NoLoc]
  /\ UNCHANGED <<backendVars, slock, snapVars, files, bus, sub, calls>>

\* the failure arm without the reconnect: the guard is dropped and the loop sleeps
PingErrNoReconnect ==
  /\ Reading("ping", "p_ping")
  /\ \E o \in Outcomes("query") \ {"ok"} : ReadDone("ping", o)
  /\ qlock' = NoTask
  /\ pc' = [pc EXCEPT !["ping"] = "p_sleep"]
  /\ loc' = [loc EXCEPT !["ping"] = NoLoc]
  /\ UNCHANGED <<backendVars, slock, snapVars, files, bus, sub, calls>>

\* the ping fails: reconnect_until_success, the lock still held
PingErr ==
  /\ Reading("ping", "p_ping")
  /\ \E o \in Outcomes("query") \ {"ok"} : ReadDone("ping", o)
  /\ pc' = [pc EXCEPT !["ping"] = "rc"]
  /\ loc' = [loc EXCEPT !["ping"] = EnterReconnect(@)]
  /\ UNCHANGED <<backendVars, lockVars, snapVars, files, bus, sub, calls>>

\* reconnect_until_success returned: drop(client), sleep(PING_INTERVAL)
PingReconnected ==
  /\ pc["ping"] = "rc_done"
  /\ qlock' = NoTask
  /\ pc' = [pc EXCEPT !["ping"] = "p_sleep"]
  /\ loc' = [loc EXCEPT !["ping"] = NoLoc]
  /\ UNCHANGED <<backendVars, ioVars, slock, snapVars, files, bus, sub, calls>>

(* --------------------------- the channel ------------------------------ *)
Receivers(sb) == Cardinality({s \in Subs : sb[s].on})

\* a bounded queue with back-pressure: the sender waits until every receiver
\* has room for the longest run of events a caller sends
SendReadyWhenRoom(b, sb) ==
  \A s \in Subs : sb[s].on => b.tail - sb[s].next + Len(ReadyEvents) <= Capacity

\* Sender::send is synchronous: it never waits for a receiver
SendReady(b, sb) == TRUE

\* the slots of the oldest values are reused in place, and the receivers read
\* the slots in the order of the buffer
RetainInPlace(q) ==
  IF Len(q) <= Capacity THEN q
  ELSE SubSeq(q, Capacity + 1, Len(q)) \o SubSeq(q, Len(q) - Capacity + 1, Capacity)

\* the values the channel retains, in sending order: the last Capacity ones
Retain(q) ==
  IF Len(q) <= Capacity THEN q ELSE SubSeq(q, Len(q) - Capacity + 1, Len(q))

\* Sender::send, for a run of sends with at least one receiver: every value
\* is stored after the ones sent before, an oldest value is overwritten once
\* the buffer is full
SendAll(b, kinds, v) ==
  [buf |-> Retain(b.buf \o [i \in 1..Len(kinds) |->
                              [kind |-> kinds[i], rid |-> v, seq |-> b.tail + i]]),
   tail |-> b.tail + Len(kinds)]

\* a run of `tx.send(..)?` statements: with no receiver the first send
\* returns an error and the function returns it
SendResult(kinds, sb) == IF kinds # <<>> /\ Receivers(sb) = 0 THEN "err" ELSE "ok"

BusAfter(b, kinds, v, sb) == IF Receivers(sb) = 0 THEN b ELSE SendAll(b, kinds, v)

(* --------------------------- the idle task ---------------------------- *)
\* the long poll returns: MPD reports the changed subsystems
IdleOk ==
  /\ Reading("idle", "i_idle")
  /\ "ok" \in Outcomes("idle")
  /\ pending # {}
  /\ ReadDone("idle", "ok")
  /\ pending' = {}
  /\ loc' = [loc EXCEPT !["idle"] = [NoLoc EXCEPT !.todo = ChangedFields(pending)]]
  /\ pc' = [pc EXCEPT !["idle"] = "i_disp"]
  /\ UNCHANGED <<mpd, changes, lockVars, snapVars, files, bus, sub, calls>>

\* idle() returns an error: the task logs it and calls reconnect_until_success
IdleErr ==
  /\ Reading("idle", "i_idle")
  /\ \E o \in Outcomes("idle") \ {"ok"} : ReadDone("idle", o)
  /\ pc' = [pc EXCEPT !["idle"] = "rc"]
  /\ loc' = [loc EXCEPT !["idle"] = EnterReconnect(NoLoc)]
  /\ UNCHANGED <<backendVars, lockVars, snapVars, files, bus, sub, calls>>

\* "stored_playlist", unrecognized names and fields not named changed:
\* nothing to do
IdleSkip ==
  /\ pc["idle"] = "i_disp"
  /\ loc["idle"].todo # <<>>
  /\ Subsystem(Head(loc["idle"].todo)) \notin {"playlist", "player", "mixer", "options"}
  /\ loc' = [loc EXCEPT !["idle"].todo = Tail(@)]
  /\ UNCHANGED <<backendVars, ioVars, lockVars, snapVars, files, bus, sub, calls, pc>>

\* "playlist": tx.send(PlayerStateChange::Tracklist)?
IdleTracklist ==
  /\ pc["idle"] = "i_disp"
  /\ loc["idle"].todo # <<>>
  /\ Subsystem(Head(loc["idle"].todo)) = "playlist"
  /\ SendReady(bus, sub)
  /\ bus' = BusAfter(bus, <<"Tracklist">>, 0, sub)
  /\ IF SendResult(<<"Tracklist">>, sub) = "ok"
     THEN /\ loc' = [loc EXCEPT !["idle"].todo = Tail(@)]
          /\ pc' = pc
     ELSE /\ loc' = [loc EXCEPT !["idle"] = EnterReconnect(NoLoc)]
          /\ pc' = [pc EXCEPT !["idle"] = "rc"]
  /\ UNCHANGED <<backendVars, ioVars, lockVars, snapVars, files, sub, calls>>

\* "player" | "mixer" | "options": update_status(c, state, tx) on the client
\* idle() was given
IdleRefresh ==
  /\ pc["idle"] = "i_disp"
  /\ loc["idle"].todo # <<>>
  /\ Subsystem(Head(loc["idle"].todo)) \in {"player", "mixer", "options"}
  /\ loc' = [loc EXCEPT !["idle"].todo = Tail(@), !["idle"].rid = rids + 1]
  /\ rids' = rids + 1
  /\ pc' = [pc EXCEPT !["idle"] = "us_status"]
  /\ UNCHANGED <<backendVars, ioVars, lockVars, state, written, lastNew, files, bus,
                 sub, calls>>

\* every field is handled: idle() returns Ok and the task's loop calls it again
IdleDone ==
  /\ pc["idle"] = "i_disp"
  /\ loc["idle"].todo = <<>>
  /\ loc' = [loc EXCEPT !["idle"] = NoLoc]
  /\ pc' = [pc EXCEPT !["idle"] = "i_idle"]
  /\ UNCHANGED <<backendVars, ioVars, lockVars, snapVars, files, bus, sub, calls>>

\* reconnect_until_success returned: the task's loop calls idle() again
IdleReconnected ==
  /\ pc["idle"] = "rc_done"
  /\ loc' = [loc EXCEPT !["idle"] = NoLoc]
  /\ pc' = [pc EXCEPT !["idle"] = "i_idle"]
  /\ UNCHANGED <<backendVars, ioVars, lockVars, snapVars, files, bus, sub, calls>>


(* --------------------------- update_status ---------------------------- *)
\* the events are sent before the snapshot is written
LastStepsEmitFirst == <<"us_emit", "us_write", "us_done">>

\* lines 191-195: the order of the last steps of update_status
LastSteps == <<"us_write", "us_emit", "us_done">>

FirstStep == LastSteps[1]

StepAfter(p) == IF p = LastSteps[1] THEN LastSteps[2]
                ELSE IF p = LastSteps[2] THEN LastSteps[3] ELSE "us_done"

\* update_status returns early with an error (the `?` of a query)
Failed(l) == [l EXCEPT !.io = "none", !.res = "err", !.new = None, !.old = None,
                       !.status = None, !.art = None, !.lacks = {}]

\* the metadata a currentsong response carries: the tags of the song that is
\* current when the response is made (0: no song, an empty map)
Metadata(m) == IF IsSome(m.song) THEN Unwrap(m.song)[2] ELSE 0

\* the positions of update_status after its status response was read
AfterStatus ==
  {"us_song", "us_old", "art_song", "art_read", "art_alb", "art_more", "art_albmore",
   "art_flush", "us_write", "us_emit"}

\* the refreshes that had their status response before the one task t reads
\* now: those that wrote the snapshot, and those under way past line 160
Obtained(t) ==
  {written[i] : i \in DOMAIN written}
    \cup {loc[u].rid : u \in {v \in Refreshers \ {t} : pc[v] \in AfterStatus}}

\* line 160: the status response arrives; lines 161-166 when it has no
\* "song" field. `bad` records that the response lacks a mandatory field.
RefreshStatusOk(t) ==
  /\ Reading(t, "us_status")
  /\ "ok" \in Outcomes(ConnOf(t))
  /\ \E lk \in StatusLacks(faults) :
       /\ faults' = IF lk = {} THEN faults ELSE faults - 1
       /\ IF IsSome(mpd.song)
          THEN /\ loc' = [loc EXCEPT ![t] = [@ EXCEPT !.io = "none", !.status = Some(mpd),
                                                !.lacks = lk,
                                                !.before = Obtained(t),
                                                !.bad = missing_fields(mpd, lk) # {}]]
               /\ pc' = [pc EXCEPT ![t] = "us_song"]
          ELSE IF FromOk(mpd, lk)
          THEN /\ loc' = [loc EXCEPT ![t] = [@ EXCEPT !.io = "none",
                                                !.new = Some(MpdStateFrom(mpd, None)),
                                                !.before = Obtained(t),
                                                !.bad = missing_fields(mpd, lk) # {}]]
               /\ pc' = [pc EXCEPT ![t] = "us_old"]
          ELSE /\ loc' = [loc EXCEPT ![t] = [Failed(@) EXCEPT !.bad = TRUE]]
               /\ pc' = [pc EXCEPT ![t] = "us_done"]
  /\ UNCHANGED alive
  /\ UNCHANGED <<backendVars, lockVars, snapVars, files, bus, sub, calls>>

\* line 162: the currentsong response arrives; line 163
RefreshSongOk(t) ==
  /\ Reading(t, "us_song")
  /\ "ok" \in Outcomes(ConnOf(t))
  /\ ReadDone(t, "ok")
  /\ IF FromOk(Unwrap(loc[t].status), loc[t].lacks)
     THEN /\ loc' = [loc EXCEPT ![t] = [@ EXCEPT !.io = "none", !.status = None,
                 !.lacks = {},
                 !.new = Some(MpdStateFrom(Unwrap(loc[t].status), Some(Metadata(mpd))))]]
          /\ pc' = [pc EXCEPT ![t] = "us_old"]
     ELSE /\ loc' = [loc EXCEPT ![t] = Failed(@)]
          /\ pc' = [pc EXCEPT ![t] = "us_done"]
  /\ UNCHANGED <<backendVars, lockVars, snapVars, files, bus, sub, calls>>

\* lines 160, 162: a query of the refresh fails and update_status returns it
RefreshQueryErr(t) ==
  /\ Reading(t, "us_status") \/ Reading(t, "us_song")
  /\ \E o \in Outcomes(ConnOf(t)) \ {"ok"} : ReadDone(t, o)
  /\ loc' = [loc EXCEPT ![t] = Failed(@)]
  /\ pc' = [pc EXCEPT ![t] = "us_done"]
  /\ UNCHANGED <<backendVars, lockVars, snapVars, files, bus, sub, calls>>

\* the path of a cover-art file, by the song id it is named after
RemoveFile(fs, path) == IF IsSome(path) THEN fs \ {Unwrap(path)} ELSE fs

\* line 167: old = state.read().await.clone(), and the branch of lines
\* 169-189 up to its next await
RefreshOld(t) ==
  /\ pc[t] = "us_old"
  /\ LET new == Unwrap(loc[t].new)
         old == state
     IN IF IsSome(new.song) /\ new.song # old.song
        THEN /\ loc' = [loc EXCEPT ![t].old = Some(old)]
             /\ pc' = [pc EXCEPT ![t] = "art_song"]
             /\ files' = files
        ELSE IF IsSome(new.song)
        THEN /\ loc' = [loc EXCEPT ![t].old = Some(old),
                           ![t].new = Some([new EXCEPT !.album_art = old.album_art])]
             /\ pc' = [pc EXCEPT ![t] = FirstStep]
             /\ files' = files
        ELSE /\ loc' = [loc EXCEPT ![t].old = Some(old)]
             /\ pc' = [pc EXCEPT ![t] = FirstStep]
             /\ files' = RemoveFile(files, old.album_art)
  /\ UNCHANGED <<backendVars, ioVars, lockVars, snapVars, bus, sub, calls>>

(* --------------------------- update_album_art ------------------------- *)
\* lines 170-178: update_album_art returned Ok(new_path); artres records
\* whether a binary chunk was written to the file
ArtOk(l, fs) ==
  [loc |-> [l EXCEPT !.io = "none", !.art = None, !.size = 0, !.bsize = 0,
               !.offset = 0, !.data = <<>>,
               !.artres = IF l.data = <<>> THEN "nodata" ELSE "data",
               !.new = Some([Unwrap(l.new) EXCEPT !.album_art = l.art])],
   files |-> RemoveFile(fs, Unwrap(l.old).album_art)]

\* the path of the file that was created is kept after a failure
ArtErrKeepsPath(l) ==
  [l EXCEPT !.io = "none", !.art = None, !.size = 0, !.bsize = 0,
            !.offset = 0, !.data = <<>>, !.artres = "err",
            !.new = Some([Unwrap(l.new) EXCEPT !.album_art = l.art])]

\* lines 179-181: update_album_art returned an error, which is logged
ArtErr(l) == [l EXCEPT !.io = "none", !.art = None, !.size = 0, !.bsize = 0,
                       !.offset = 0, !.data = <<>>, !.artres = "err"]

\* init, lines 39-41: update_album_art returned Ok(album_art_path)
InitArtOk(l) ==
  [l EXCEPT !.io = "none", !.art = None, !.size = 0, !.bsize = 0,
            !.offset = 0, !.data = <<>>,
            !.artres = IF l.data = <<>> THEN "nodata" ELSE "data",
            !.new = Some([Unwrap(l.new) EXCEPT !.album_art = l.art])]

\* the position update_album_art returns to: line 41 of init, or the
\* end of the match of update_status
AfterArt(l) == IF l.op = "init" THEN "in_state" ELSE FirstStep

\* lines 220-242: the currentsong response names the file and the id; the
\* picture file is created
ArtSongOk(t) ==
  /\ Reading(t, "art_song")
  /\ "ok" \in Outcomes(ConnOf(t))
  /\ IsSome(mpd.song)
  /\ ReadDone(t, "ok")
  /\ loc' = [loc EXCEPT ![t] = [@ EXCEPT !.io = "none",
                                   !.art = Some(Unwrap(mpd.song)[2])]]
  /\ files' = files \cup {Unwrap(mpd.song)[2]}
  /\ pc' = [pc EXCEPT ![t] = "art_read"]
  /\ UNCHANGED <<backendVars, lockVars, snapVars, bus, sub, calls>>

\* the bytes of a picture a response carries: n of them, from offset o
Bytes(o, n) == [i \in 1..n |-> o + i - 1]

\* what a response to a request at offset 0 says of a picture: its `size`
\* and the length `binary` of the chunk that follows
Pictures == {p \in [size : 1..MaxSize, binary : 1..MaxSize] : p.binary <= p.size}

\* lines 248-255, 281-288: the first response has a binary chunk; it is
\* written, and if size and binary differ the offset is advanced
ArtFirst(l, p) ==
  [l EXCEPT !.io = "none", !.size = p.size, !.bsize = p.binary,
            !.data = Bytes(0, p.binary),
            !.offset = IF p.size # p.binary THEN p.binary ELSE 0]

\* line 245: the readpicture response arrives
ArtReadOk(t) ==
  /\ Reading(t, "art_read")
  /\ "ok" \in Outcomes(ConnOf(t))
  /\ ReadDone(t, "ok")
  /\ \/ /\ loc' = [loc EXCEPT ![t].io = "none"]
        /\ pc' = [pc EXCEPT ![t] = "art_alb"]
     \/ \E p \in Pictures :
          /\ loc' = [loc EXCEPT ![t] = ArtFirst(@, p)]
          /\ pc' = [pc EXCEPT ![t] = IF p.size # p.binary THEN "art_more"
                                     ELSE "art_flush"]
  /\ UNCHANGED <<backendVars, lockVars, snapVars, files, bus, sub, calls>>

\* line 277: the albumart response arrives
ArtAlbOk(t) ==
  /\ Reading(t, "art_alb")
  /\ "ok" \in Outcomes(ConnOf(t))
  /\ ReadDone(t, "ok")
  /\ \/ /\ loc' = [loc EXCEPT ![t].io = "none"]
        /\ pc' = [pc EXCEPT ![t] = "art_flush"]
     \/ \E p \in Pictures :
          /\ loc' = [loc EXCEPT ![t] = ArtFirst(@, p)]
          /\ pc' = [pc EXCEPT ![t] = IF p.size # p.binary THEN "art_albmore"
                                     ELSE "art_flush"]
  /\ UNCHANGED <<backendVars, lockVars, snapVars, files, bus, sub, calls>>

\* line 277: `if let Ok(resp)` does not match; the function goes on to the
\* flush and returns the path
ArtAlbErr(t) ==
  /\ Reading(t, "art_alb")
  /\ \E o \in Outcomes(ConnOf(t)) \ {"ok"} : ReadDone(t, o)
  /\ loc' = [loc EXCEPT ![t].io = "none"]
  /\ pc' = [pc EXCEPT ![t] = "art_flush"]
  /\ UNCHANGED <<backendVars, lockVars, snapVars, files, bus, sub, calls>>

\* lines 260-266, 293-299: `fields` is the map of the first response, so
\* the loop ends when the first chunk's length plus the offset reaches the
\* size
LastChunk(l) == l.bsize + l.offset >= l.size

\* lines 259-270, 292-303: the response of a continuation request arrives:
\* the backend sends the bytes from the requested offset, as many as it
\* likes; they are written, and the offset is advanced by the first
\* chunk's length
ArtMoreOk(t) ==
  /\ Reading(t, "art_more") \/ Reading(t, "art_albmore")
  /\ "ok" \in Outcomes(ConnOf(t))
  /\ ReadDone(t, "ok")
  /\ \E n \in 1..(loc[t].size - loc[t].offset) :
       IF LastChunk(loc[t])
       THEN /\ loc' = [loc EXCEPT ![t] = [@ EXCEPT !.io = "none",
                          !.data = @ \o Bytes(loc[t].offset, n)]]
            /\ pc' = [pc EXCEPT ![t] = "art_flush"]
       ELSE /\ loc' = [loc EXCEPT ![t] = [@ EXCEPT !.io = "none",
                          !.data = @ \o Bytes(loc[t].offset, n),
                          !.offset = @ + loc[t].bsize]]
            /\ pc' = pc
  /\ UNCHANGED <<backendVars, lockVars, snapVars, files, bus, sub, calls>>

\* lines 265 and 298: the response to a continuation request is framed but
\* has no binary chunk, and `resp.binary.unwrap()` panics. The panic ends
\* the task; unwinding drops the guards the task holds.
ArtMoreNoBinary(t) ==
  /\ Reading(t, "art_more") \/ Reading(t, "art_albmore")
  /\ "ok" \in Outcomes(ConnOf(t))
  /\ ReadDone(t, "ok")
  /\ loc' = [loc EXCEPT ![t].io = "none"]
  /\ pc' = [pc EXCEPT ![t] = "panicked"]
  /\ qlock' = IF qlock = t THEN NoTask ELSE qlock
  /\ slock' = IF slock = t THEN NoTask ELSE slock
  /\ UNCHANGED <<backendVars, snapVars, files, bus, sub, calls>>

\* lines 314-316 and 171-177: pic_file.flush(), update_album_art returns
\* Ok(pic_path); the path is put in `new` and the file of `old` is removed
ArtFlush(t) ==
  /\ pc[t] = "art_flush"
  /\ IF loc[t].op = "init"
     THEN /\ loc' = [loc EXCEPT ![t] = InitArtOk(@)]
          /\ files' = files
     ELSE /\ loc' = [loc EXCEPT ![t] = ArtOk(@, files).loc]
          /\ files' = ArtOk(loc[t], files).files
  /\ pc' = [pc EXCEPT ![t] = AfterArt(loc[t])]
  /\ UNCHANGED <<backendVars, ioVars, lockVars, snapVars, bus, sub, calls>>

\* lines 220, 245, 259, 292: a query of update_album_art fails (`?`)
ArtQueryErr(t) ==
  /\ \/ Reading(t, "art_song") \/ Reading(t, "art_read")
     \/ Reading(t, "art_more") \/ Reading(t, "art_albmore")
  /\ \E o \in Outcomes(ConnOf(t)) \ {"ok"} : ReadDone(t, o)
  /\ loc' = [loc EXCEPT ![t] = ArtErr(@)]
  /\ pc' = [pc EXCEPT ![t] = AfterArt(loc[t])]
  /\ UNCHANGED <<backendVars, lockVars, snapVars, files, bus, sub, calls>>

\* lines 221-228: the currentsong response has no file or no Id (bail!)
ArtNoSong(t) ==
  /\ Reading(t, "art_song")
  /\ "ok" \in Outcomes(ConnOf(t))
  /\ ~IsSome(mpd.song)
  /\ ReadDone(t, "ok")
  /\ loc' = [loc EXCEPT ![t] = ArtErr(@)]
  /\ pc' = [pc EXCEPT ![t] = AfterArt(loc[t])]
  /\ UNCHANGED <<backendVars, lockVars, snapVars, files, bus, sub, calls>>

(* --------------------- publication and the events --------------------- *)
\* the snapshot is updated in place, field by field, and a field is forgotten
PublishInPlace(cur, new) ==
  [cur EXCEPT !.playback_state = new.playback_state, !.loop_state = new.loop_state,
              !.random = new.random, !.song = new.song, !.next_song = new.next_song,
              !.playlistlength = new.playlistlength, !.current_song = new.current_song,
              !.album_art = new.album_art]

\* line 192: *state.write().await = new
Publish(cur, new) == new

\* RwLock::write resolves only when no read guard is alive
WriteFree(t) == \A u \in Tasks \ {t} : ~loc[u].reading

RefreshWrite(t) ==
  /\ pc[t] = "us_write"
  /\ WriteFree(t)
  /\ state' = Publish(state, Unwrap(loc[t].new))
  /\ lastNew' = Unwrap(loc[t].new)
  /\ written' = Append(written, loc[t].rid)
  /\ pc' = [pc EXCEPT ![t] = StepAfter("us_write")]
  /\ UNCHANGED <<backendVars, ioVars, lockVars, rids, files, bus, sub, calls, loc>>

\* line 195: the snapshot the comparison of lines 196-213 takes as new
Compared(shared, built) == shared

\* lines 195-215: the comparison and the sends
RefreshEmit(t) ==
  /\ pc[t] = "us_emit"
  /\ SendReady(bus, sub)
  /\ LET evs == DiffEvents(Compared(state, Unwrap(loc[t].new)), Unwrap(loc[t].old))
     IN /\ bus' = BusAfter(bus, evs, loc[t].rid, sub)
        /\ loc' = [loc EXCEPT ![t].ev = evs, ![t].res = SendResult(evs, sub),
                              ![t].sent = Some(Receivers(sub) > 0)]
  /\ pc' = [pc EXCEPT ![t] = StepAfter("us_emit")]
  /\ UNCHANGED <<backendVars, ioVars, lockVars, snapVars, files, sub, calls>>

\* what is left of the locals once update_status has returned
Returned(l) == [NoLoc EXCEPT !.op = l.op, !.todo = l.todo, !.res = l.res,
                             !.rid = l.rid, !.bad = l.bad]

\* idle(), line 146: update_status returned Ok, the loop goes on
IdleRefreshOk ==
  /\ pc["idle"] = "us_done"
  /\ loc["idle"].res = "ok"
  /\ loc' = [loc EXCEPT !["idle"] = [Returned(@) EXCEPT !.res = "", !.rid = 0]]
  /\ pc' = [pc EXCEPT !["idle"] = "i_disp"]
  /\ UNCHANGED <<backendVars, ioVars, lockVars, snapVars, files, bus, sub, calls>>

\* idle(), line 146: update_status returned an error, idle() returns it and
\* the task calls reconnect_until_success
IdleRefreshErr ==
  /\ pc["idle"] = "us_done"
  /\ loc["idle"].res = "err"
  /\ loc' = [loc EXCEPT !["idle"] = EnterReconnect(NoLoc)]
  /\ pc' = [pc EXCEPT !["idle"] = "rc"]
  /\ UNCHANGED <<backendVars, ioVars, lockVars, snapVars, files, bus, sub, calls>>


(* ------------------- the methods of MpdStateServer -------------------- *)
Ops == {"issue_command", "update_status", "ready"}

\* a D-Bus handler: self.mpdclient.lock().await, then a method of the server
CallStart(t, op) ==
  /\ pc[t] = "c_idle"
  /\ calls > 0
  /\ LockFree(slock)
  /\ slock' = t
  /\ calls' = calls - 1
  /\ loc' = [loc EXCEPT ![t] = [NoLoc EXCEPT !.op = op]]
  /\ pc' = [pc EXCEPT ![t] = "m_lock"]
  /\ UNCHANGED <<backendVars, ioVars, qlock, snapVars, files, bus, sub>>

\* lines 94, 100, 115: self.query_client.lock().await
QueryLock(t) ==
  /\ pc[t] = "m_lock"
  /\ LockFree(qlock)
  /\ qlock' = t
  /\ IF loc[t].op = "issue_command"
     THEN /\ pc' = [pc EXCEPT ![t] = "m_cmd1"]
          /\ UNCHANGED <<rids, loc>>
     ELSE /\ pc' = [pc EXCEPT ![t] = "us_status"]
          /\ rids' = rids + 1
          /\ loc' = [loc EXCEPT ![t].rid = rids + 1]
  /\ UNCHANGED <<backendVars, ioVars, slock, state, written, lastNew, files, bus, sub,
                 calls>>

\* issue_command, lines 101-103: the first attempt succeeds
CmdFirstOk(t) ==
  /\ Reading(t, "m_cmd1")
  /\ "ok" \in Outcomes("query")
  /\ ReadDone(t, "ok")
  /\ loc' = [loc EXCEPT ![t] = [@ EXCEPT !.io = "none", !.first = "ok", !.res = "ok",
                                   !.sends = @ + 1]]
  /\ pc' = [pc EXCEPT ![t] = "m_ret"]
  /\ UNCHANGED <<backendVars, lockVars, snapVars, files, bus, sub, calls>>

\* the arm `Err(e)` of issue_command is taken for every error
Retried(o) == o # "ok"

\* issue_command, lines 104-106: the first attempt fails
CmdFirstErr(t) ==
  /\ Reading(t, "m_cmd1")
  /\ \E o \in Outcomes("query") \ {"ok"} :
       /\ ReadDone(t, o)
       /\ IF Retried(o)
          THEN /\ loc' = [loc EXCEPT ![t] = [EnterReconnect(@) EXCEPT !.first = o,
                                               !.sends = @ + 1, !.reconns = @ + 1]]
               /\ pc' = [pc EXCEPT ![t] = "rc"]
          ELSE /\ loc' = [loc EXCEPT ![t] = [@ EXCEPT !.io = "none", !.first = o,
                                               !.res = o, !.sends = @ + 1]]
               /\ pc' = [pc EXCEPT ![t] = "m_ret"]
  /\ UNCHANGED <<backendVars, lockVars, snapVars, files, bus, sub, calls>>

\* issue_command, line 107: reconnect_until_success returned
CmdReconnected(t) ==
  /\ pc[t] = "rc_done"
  /\ pc' = [pc EXCEPT ![t] = "m_cmd2"]
  /\ UNCHANGED <<backendVars, ioVars, lockVars, snapVars, files, bus, sub, calls, loc>>

\* the command is retried until it succeeds
AfterSecondRetry(o) == IF o = "ok" THEN "m_ret" ELSE "m_cmd2"

\* after the second attempt issue_command returns, whatever the outcome
AfterSecond(o) == "m_ret"

\* issue_command, line 107: the outcome of the second attempt is returned
CmdSecond(t) ==
  /\ Reading(t, "m_cmd2")
  /\ \E o \in Outcomes("query") :
       /\ ReadDone(t, o)
       /\ loc' = [loc EXCEPT ![t] = [@ EXCEPT !.io = "none", !.res = o, !.sends = @ + 1]]
       /\ pc' = [pc EXCEPT ![t] = AfterSecond(o)]
  /\ UNCHANGED <<backendVars, lockVars, snapVars, files, bus, sub, calls>>

\* update_status (the method), lines 95-96: the result of the refresh is
\* returned
UpdateStatusDone(t) ==
  /\ pc[t] = "us_done"
  /\ loc[t].op = "update_status"
  /\ loc' = [loc EXCEPT ![t] = Returned(@)]
  /\ pc' = [pc EXCEPT ![t] = "m_ret"]
  /\ UNCHANGED <<backendVars, ioVars, lockVars, snapVars, files, bus, sub, calls>>

\* ready, lines 117-126: after the refresh, one event of every kind
ReadySend(t) ==
  /\ pc[t] = "us_done"
  /\ loc[t].op = "ready"
  /\ SendReady(bus, sub)
  /\ IF loc[t].res = "ok"
     THEN /\ bus' = BusAfter(bus, ReadyEvents, loc[t].rid, sub)
          /\ loc' = [loc EXCEPT ![t] = [Returned(@) EXCEPT
                                          !.res = SendResult(ReadyEvents, sub)]]
     ELSE /\ bus' = bus
          /\ loc' = [loc EXCEPT ![t] = Returned(@)]
  /\ pc' = [pc EXCEPT ![t] = "m_ret"]
  /\ UNCHANGED <<backendVars, ioVars, lockVars, snapVars, files, sub, calls>>

\* the method returns: the guard of the query mutex is dropped, then the
\* handler drops the guard of the server mutex
CallReturn(t) ==
  /\ pc[t] = "m_ret"
  /\ qlock' = NoTask
  /\ slock' = NoTask
  /\ loc' = [loc EXCEPT ![t] = NoLoc]
  /\ pc' = [pc EXCEPT ![t] = "c_idle"]
  /\ UNCHANGED <<backendVars, ioVars, snapVars, files, bus, sub, calls>>

(* ----------------------------- receivers ------------------------------ *)
\* get_mpd_event_rx: a new receiver sees the values sent from now on
Subscribe(s) ==
  /\ ~sub[s].on
  /\ sub' = [sub EXCEPT ![s] = [NoSub EXCEPT !.on = TRUE, !.next = bus.tail,
                                             !.lastSeq = bus.tail]]
  /\ UNCHANGED <<backendVars, ioVars, lockVars, snapVars, files, bus, calls, pc, loc>>

\* number of values sent that the channel no longer retains
Oldest(b) == b.tail - Len(b.buf)

\* where a receiver that fell behind is moved to
LagCursor(b) == Oldest(b)

\* rx.recv().await returns a value: the next one in sending order
Recv(s) ==
  /\ sub[s].on
  /\ sub[s].phase = "recv"
  /\ sub[s].next < bus.tail
  /\ sub[s].next >= Oldest(bus)
  /\ LET e == bus.buf[sub[s].next - Oldest(bus) + 1]
     IN sub' = [sub EXCEPT ![s] = [@ EXCEPT !.next = @ + 1, !.lastSeq = e.seq,
                                     !.lastRid = e.rid, !.phase = "read"]]
  /\ UNCHANGED <<backendVars, ioVars, lockVars, snapVars, files, bus, calls, pc, loc>>

\* rx.recv().await returns Lagged: the values the receiver had not read are
\* overwritten; the consumer's loop is restarted and receives again
RecvLagged(s) ==
  /\ sub[s].on
  /\ sub[s].phase = "recv"
  /\ sub[s].next < Oldest(bus)
  /\ sub' = [sub EXCEPT ![s] = [@ EXCEPT !.next = LagCursor(bus), !.lagged = TRUE]]
  /\ UNCHANGED <<backendVars, ioVars, lockVars, snapVars, files, bus, calls, pc, loc>>

\* the consumer reacts to the event: state.read().await
SubRead(s) ==
  /\ sub[s].phase = "read"
  /\ sub' = [sub EXCEPT ![s] = [@ EXCEPT !.lastRid = 0, !.phase = "recv"]]
  /\ UNCHANGED <<backendVars, ioVars, lockVars, snapVars, files, bus, calls, pc, loc>>

(* --------------------------- specification ---------------------------- *)
Next ==
  \/ BackendChange
  \/ \E c \in Conns : Drop(c)
  \/ \E t \in Tasks : IssueWrite(t)
  \/ \E t \in Tasks : ReconnectFail(t)
  \/ \E t \in Tasks : ReconnectOk(t)
  \/ PingLock
  \/ PingOk
  \/ PingErr
  \/ PingReconnected
  \/ IdleOk
  \/ IdleErr
  \/ IdleSkip
  \/ IdleTracklist
  \/ IdleRefresh
  \/ IdleDone
  \/ IdleReconnected
  \/ IdleRefreshOk
  \/ IdleRefreshErr
  \/ \E t \in Refreshers : RefreshStatusOk(t)
  \/ \E t \in Refreshers : RefreshSongOk(t)
  \/ \E t \in Refreshers : RefreshQueryErr(t)
  \/ \E t \in Refreshers : RefreshOld(t)
  \/ \E t \in Refreshers : ArtSongOk(t)
  \/ \E t \in Refreshers : ArtNoSong(t)
  \/ \E t \in Refreshers : ArtReadOk(t)
  \/ \E t \in Refreshers : ArtAlbOk(t)
  \/ \E t \in Refreshers : ArtAlbErr(t)
  \/ \E t \in Refreshers : ArtMoreOk(t)
  \/ \E t \in Refreshers : ArtMoreNoBinary(t)
  \/ \E t \in Refreshers : ArtFlush(t)
  \/ \E t \in Refreshers : ArtQueryErr(t)
  \/ \E t \in Refreshers : RefreshWrite(t)
  \/ \E t \in Refreshers : RefreshEmit(t)
  \/ \E t \in Callers, op \in Ops : CallStart(t, op)
  \/ \E t \in Callers : QueryLock(t)
  \/ \E t \in Callers : CmdFirstOk(t)
  \/ \E t \in Callers : CmdFirstErr(t)
  \/ \E t \in Callers : CmdReconnected(t)
  \/ \E t \in Callers : CmdSecond(t)
  \/ \E t \in Callers : UpdateStatusDone(t)
  \/ \E t \in Callers : ReadySend(t)
  \/ \E t \in Callers : CallReturn(t)
  \/ \E s \in Subs : Subscribe(s)
  \/ \E s \in Subs : Recv(s)
  \/ \E s \in Subs : RecvLagged(s)
  \/ \E s \in Subs : SubRead(s)

Spec == Init /\ [][Next]_vars


(* ------------- the query connection and its users alone --------------- *)
\* The ping task and the D-Bus callers, with a backend that may have made
\* one change since the snapshot was built, and with faults.
InitQuery ==
  /\ \E ch \in {<<InitialStatus, "">>} \cup BackendChanges(InitialStatus) :
       /\ mpd = ch[1]
       /\ pending = {ch[2]} \ {""}
  /\ changes = 0
  /\ faults = MaxFaults
  /\ alive = [c \in Conns |-> TRUE]
  /\ qlock = NoTask
  /\ slock = NoTask
  /\ state = MpdStateFrom(InitialStatus, None)
  /\ rids = 0
  /\ written = <<>>
  /\ lastNew = MpdStateFrom(InitialStatus, None)
  /\ files = {}
  /\ bus = [buf |-> <<>>, tail |-> 0]
  /\ sub = [s \in Subs |-> NoSub]
  /\ calls = MaxCalls
  /\ pc = [t \in Tasks |-> IF t = "ping" THEN "p_sleep"
                           ELSE IF t = "idle" THEN "i_idle" ELSE "c_idle"]
  /\ loc = [t \in Tasks |-> NoLoc]

QueryUsers == {"ping"} \cup Callers

NextQuery ==
  \/ Drop("query")
  \/ \E t \in QueryUsers : IssueWrite(t)
  \/ \E t \in QueryUsers : ReconnectFail(t)
  \/ \E t \in QueryUsers : ReconnectOk(t)
  \/ PingLock
  \/ PingOk
  \/ PingErr
  \/ PingReconnected
  \/ \E t \in Callers : RefreshStatusOk(t)
  \/ \E t \in Callers : RefreshSongOk(t)
  \/ \E t \in Callers : RefreshQueryErr(t)
  \/ \E t \in Callers : RefreshOld(t)
  \/ \E t \in Callers : ArtSongOk(t)
  \/ \E t \in Callers : ArtReadOk(t)
  \/ \E t \in Callers : ArtAlbOk(t)
  \/ \E t \in Callers : ArtAlbErr(t)
  \/ \E t \in Callers : ArtMoreOk(t)
  \/ \E t \in Callers : ArtFlush(t)
  \/ \E t \in Callers : ArtQueryErr(t)
  \/ \E t \in Callers : RefreshWrite(t)
  \/ \E t \in Callers : RefreshEmit(t)
  \/ \E t \in Callers, op \in Ops : CallStart(t, op)
  \/ \E t \in Callers : QueryLock(t)
  \/ \E t \in Callers : CmdFirstOk(t)
  \/ \E t \in Callers : CmdFirstErr(t)
  \/ \E t \in Callers : CmdReconnected(t)
  \/ \E t \in Callers : CmdSecond(t)
  \/ \E t \in Callers : UpdateStatusDone(t)
  \/ \E t \in Callers : ReadySend(t)
  \/ \E t \in Callers : CallReturn(t)

SpecQuery == InitQuery /\ [][NextQuery]_vars

\* a step of task t: the runtime keeps polling every spawned task and every
\* handler, so a task that can take a step eventually takes one
StepOf(t) == NextQuery /\ (pc'[t] # pc[t] \/ loc'[t] # loc[t])

\* the users of the query connection under that scheduling
SpecKeepalive ==
  InitQuery /\ [][NextQuery]_vars /\ \A t \in QueryUsers : WF_vars(StepOf(t))

\* the same users with the waiters of tokio's Mutex served in the order of
\* their arrival: a waiter that finds the mutex free again and again gets it
SpecFairLock ==
  InitQuery /\ [][NextQuery]_vars /\ \A t \in QueryUsers : SF_vars(StepOf(t))

(* ------------- the refreshes, the snapshot and the events ------------- *)
\* The idle task, the D-Bus callers that refresh, the backend and the
\* receivers, with connections that do not fail.
InitRefresh ==
  /\ mpd = InitialStatus
  /\ pending = {}
  /\ changes = MaxChanges
  /\ faults = 0
  /\ alive = [c \in Conns |-> TRUE]
  /\ qlock = NoTask
  /\ slock = NoTask
  /\ state = MpdStateFrom(InitialStatus, None)
  /\ rids = 0
  /\ written = <<>>
  /\ lastNew = MpdStateFrom(InitialStatus, None)
  /\ files = {}
  /\ bus = [buf |-> <<>>, tail |-> 0]
  /\ sub = [s \in Subs |-> NoSub]
  /\ calls = MaxCalls
  /\ pc = [t \in Tasks |-> IF t = "ping" THEN "p_sleep"
                           ELSE IF t = "idle" THEN "i_idle" ELSE "c_idle"]
  /\ loc = [t \in Tasks |-> NoLoc]

NextRefresh ==
  \/ BackendChange
  \/ \E t \in Refreshers : IssueWrite(t)
  \/ ReconnectFail("idle")
  \/ ReconnectOk("idle")
  \/ IdleOk
  \/ IdleSkip
  \/ IdleTracklist
  \/ IdleRefresh
  \/ IdleDone
  \/ IdleReconnected
  \/ IdleRefreshOk
  \/ IdleRefreshErr
  \/ \E t \in Refreshers : RefreshStatusOk(t)
  \/ \E t \in Refreshers : RefreshSongOk(t)
  \/ \E t \in Refreshers : RefreshOld(t)
  \/ \E t \in Refreshers : ArtSongOk(t)
  \/ \E t \in Refreshers : ArtReadOk(t)
  \/ \E t \in Refreshers : ArtAlbOk(t)
  \/ \E t \in Refreshers : ArtMoreOk(t)
  \/ \E t \in Refreshers : ArtMoreNoBinary(t)
  \/ \E t \in Refreshers : ArtFlush(t)
  \/ \E t \in Refreshers : RefreshWrite(t)
  \/ \E t \in Refreshers : RefreshEmit(t)
  \/ \E t \in Callers, op \in {"update_status", "ready"} : CallStart(t, op)
  \/ \E t \in Callers : QueryLock(t)
  \/ \E t \in Callers : UpdateStatusDone(t)
  \/ \E t \in Callers : ReadySend(t)
  \/ \E t \in Callers : CallReturn(t)
  \/ Subscribe(1)
  \/ Recv(1)
  \/ SubRead(1)

SpecRefresh == InitRefresh /\ [][NextRefresh]_vars


(* ---------------------- the channel and its receivers ----------------- *)
\* Every receiver has subscribed; a D-Bus caller calls ready() again and
\* again, the backend does not change and the connections do not fail.
InitBus ==
  /\ mpd = InitialStatus
  /\ pending = {}
  /\ changes = 0
  /\ faults = 0
  /\ alive = [c \in Conns |-> TRUE]
  /\ qlock = NoTask
  /\ slock = NoTask
  /\ state = MpdStateFrom(InitialStatus, None)
  /\ rids = 0
  /\ written = <<>>
  /\ lastNew = MpdStateFrom(InitialStatus, None)
  /\ files = {}
  /\ bus = [buf |-> <<>>, tail |-> 0]
  /\ sub = [s \in Subs |-> [NoSub EXCEPT !.on = TRUE]]
  /\ calls = BusCalls
  /\ pc = [t \in Tasks |-> IF t = "ping" THEN "p_sleep"
                           ELSE IF t = "idle" THEN "i_idle" ELSE "c_idle"]
  /\ loc = [t \in Tasks |-> NoLoc]

NextBus ==
  \/ \E t \in Callers : CallStart(t, "ready")
  \/ \E t \in Callers : QueryLock(t)
  \/ \E t \in Callers : IssueWrite(t)
  \/ \E t \in Callers : RefreshStatusOk(t)
  \/ \E t \in Callers : RefreshOld(t)
  \/ \E t \in Callers : RefreshWrite(t)
  \/ \E t \in Callers : RefreshEmit(t)
  \/ \E t \in Callers : ReadySend(t)
  \/ \E t \in Callers : CallReturn(t)
  \/ \E s \in Subs : Recv(s)
  \/ \E s \in Subs : RecvLagged(s)
  \/ \E s \in Subs : SubRead(s)

SpecBus == InitBus /\ [][NextBus]_vars


(* ----------------- the refreshes of one caller, one by one ------------ *)
\* A D-Bus caller calls update_status() again and again while the backend
\* changes; a status response may lack a field and a query may be answered
\* with an ACK line. One receiver has subscribed. The refreshes do not
\* overlap: the caller holds the query lock.
InitArt ==
  /\ mpd = InitialStatus
  /\ pending = {}
  /\ changes = ArtChanges
  /\ faults = ArtFaults
  /\ alive = [c \in Conns |-> TRUE]
  /\ qlock = NoTask
  /\ slock = NoTask
  /\ state = MpdStateFrom(InitialStatus, None)
  /\ rids = 0
  /\ written = <<>>
  /\ lastNew = MpdStateFrom(InitialStatus, None)
  /\ files = {}
  /\ bus = [buf |-> <<>>, tail |-> 0]
  /\ sub = [s \in Subs |-> IF s = 1 THEN [NoSub EXCEPT !.on = TRUE] ELSE NoSub]
  /\ calls = ArtCalls
  /\ pc = [t \in Tasks |-> IF t = "ping" THEN "p_sleep"
                           ELSE IF t = "idle" THEN "i_idle" ELSE "c_idle"]
  /\ loc = [t \in Tasks |-> NoLoc]

NextArt ==
  \/ BackendChange
  \/ \E t \in Callers : CallStart(t, "update_status")
  \/ \E t \in Callers : QueryLock(t)
  \/ \E t \in Callers : IssueWrite(t)
  \/ \E t \in Callers : RefreshStatusOk(t)
  \/ \E t \in Callers : RefreshSongOk(t)
  \/ \E t \in Callers : RefreshQueryErr(t)
  \/ \E t \in Callers : RefreshOld(t)
  \/ \E t \in Callers : ArtSongOk(t)
  \/ \E t \in Callers : ArtNoSong(t)
  \/ \E t \in Callers : ArtReadOk(t)
  \/ \E t \in Callers : ArtAlbOk(t)
  \/ \E t \in Callers : ArtAlbErr(t)
  \/ \E t \in Callers : ArtMoreOk(t)
  \/ \E t \in Callers : ArtFlush(t)
  \/ \E t \in Callers : ArtQueryErr(t)
  \/ \E t \in Callers : RefreshWrite(t)
  \/ \E t \in Callers : RefreshEmit(t)
  \/ \E t \in Callers : UpdateStatusDone(t)
  \/ \E t \in Callers : CallReturn(t)

SpecArt == InitArt /\ [][NextArt]_vars


(* ------------------------ the framing of a response ------------------- *)
\* read_response reads one response from the stream of a connection. The
\* stream is a sequence of bytes; a byte is written as a one-character
\* string. loc[t].input is what the server sent, item by item; loc[t].r is
\* the part of the stream not yet consumed; fields and binary are the
\* two parts of the MpdResponse being built; e names the error returned.
MaxItems == 4

Letters ==
  {"a", "b", "c", "d", "e", "f", "g", "h", "i", "j", "k", "l", "m",
   "n", "o", "p", "q", "r", "s", "t", "u", "v", "w", "x", "y", "z",
   "A", "B", "C", "D", "E", "F", "G", "H", "I", "J", "K", "L", "M",
   "N", "O", "P", "Q", "R", "S", "T", "U", "V", "W", "X", "Y", "Z"}

Digits == <<"0", "1", "2", "3", "4", "5", "6", "7", "8", "9">>

Take(s, n) == SubSeq(s, 1, n)

Skip(s, n) == SubSeq(s, n + 1, Len(s))

\* a buffer that ends before the prefix does is taken as a match
starts_with_so_far(s, p) ==
  LET n == IF Len(s) < Len(p) THEN Len(s) ELSE Len(p)
  IN Take(s, n) = Take(p, n)

starts_with(s, p) == Len(s) >= Len(p) /\ Take(s, Len(p)) = p

\* the hyphen is no name character
is_field_name_char_no_hyphen(c) == c \in Letters \cup {"_"}

\* nom's AsChar::is_alpha is true of the ASCII letters only
is_field_name_char(c) == c \in Letters \cup {"_", "-"}

\* the length of the longest prefix of field name characters (take_while)
take_while(s) ==
  CHOOSE n \in 0..Len(s) :
    /\ \A i \in 1..n : is_field_name_char(s[i])
    /\ n = Len(s) \/ ~is_field_name_char(s[n + 1])

\* the length of the longest prefix without a newline (take_till)
take_till(s) ==
  CHOOSE n \in 0..Len(s) :
    /\ \A i \in 1..n : s[i] # "\n"
    /\ n = Len(s) \/ s[n + 1] = "\n"

\* Some(<<name, value>>) of a line `name: value\n`, None for an error
parse_line(i) ==
  LET name == Take(i, take_while(i))
      i1 == Skip(i, Len(name))
  IN IF ~starts_with(i1, <<":", " ">>) THEN None
     ELSE LET i2 == Skip(i1, 2)
              value == Take(i2, take_till(i2))
              i3 == Skip(i2, Len(value))
          IN IF starts_with(i3, <<"\n">>) THEN Some(<<name, value>>) ELSE None

RECURSIVE decimal(_)
decimal(s) ==
  IF s = <<>> THEN 0
  ELSE decimal(Take(s, Len(s) - 1)) * 10
         + ((CHOOSE d \in 1..10 : Digits[d] = s[Len(s)]) - 1)

\* str::parse::<u64>: an optional `+`, then one or more decimal digits;
\* Some(value), None for an error. The lengths the model draws have one
\* digit, so the overflow of the 64 bits is out of reach.
parse_u64(v) ==
  LET ds == IF starts_with(v, <<"+">>) THEN Skip(v, 1) ELSE v
  IN IF ds = <<>> \/ \E i \in 1..Len(ds) : ds[i] \notin {Digits[d] : d \in 1..10} THEN None
     ELSE Some(decimal(ds))

\* the bytes read_line appends to an empty buffer: up to and including the
\* first newline, or all that is left when the stream ends before one
read_line(r) ==
  IF take_till(r) = Len(r) THEN r ELSE Take(r, take_till(r) + 1)

DigitChars == {Digits[d] : d \in 1..10}

\* is_command_char of the error line parser: letters and `_`
CommandChars == Letters \cup {"_"}

\* the length of the longest prefix of s made of characters of cs
SpanOf(s, cs) ==
  CHOOSE n \in 0..Len(s) :
    /\ \A i \in 1..n : s[i] \in cs
    /\ n = Len(s) \/ s[n + 1] \notin cs

\* the character that follows the first p characters of s is ch
At(s, p, ch) == p + 1 <= Len(s) /\ s[p + 1] = ch

\* the tuple parse_error_line_helper returns, in the order of its last line:
\* (error_id, msg, command_list_no, current_command); None for an error.
\* Nothing is read between `]` and `{`.
parse_error_line_helper(i) ==
  LET sp == SpanOf(Skip(i, 3), {" ", "\t"})
      p1 == 3 + sp
      d1 == SpanOf(Skip(i, p1 + 1), DigitChars)
      p2 == p1 + 1 + d1
      d2 == SpanOf(Skip(i, p2 + 1), DigitChars)
      p3 == p2 + 1 + d2
      c == SpanOf(Skip(i, p3 + 2), CommandChars)
      p4 == p3 + 2 + c
      m == take_till(Skip(i, p4 + 1))
      p5 == p4 + 1 + m
  IN IF /\ starts_with(i, <<"A", "C", "K">>)
        /\ sp >= 1
        /\ At(i, p1, "[") /\ d1 >= 1
        /\ At(i, p2, "@") /\ d2 >= 1
        /\ At(i, p3, "]")
        /\ At(i, p3 + 1, "{")
        /\ At(i, p4, "}")
        /\ At(i, p5, "\n")
     THEN Some(<<SubSeq(i, p1 + 2, p2), SubSeq(i, p4 + 2, p5),
                 SubSeq(i, p2 + 2, p3), SubSeq(i, p3 + 3, p4)>>)
     ELSE None

\* impl From<usize> for MpdErrorType
MpdErrorType(e) ==
  CASE e = 1 -> <<"NotList">>
    [] e = 2 -> <<"BadArgument">>
    [] e = 3 -> <<"BadPassword">>
    [] e = 4 -> <<"Permission">>
    [] e = 50 -> <<"NoExist">>
    [] OTHER -> <<"Unknown", e>>

\* line 62: the helper's tuple is taken as (error_id, command_no,
\* current_command, msg)
Destructure(r) ==
  [error_id |-> r[1], command_no |-> r[2], current_command |-> r[3], msg |-> r[4]]

\* Some(MpdError), None for an error: the helper failed or one of the two
\* numbers did not parse
parse_error_line(i) ==
  LET res == parse_error_line_helper(i)
  IN IF ~IsSome(res) THEN None
     ELSE LET t == Destructure(Unwrap(res))
              id == parse_u64(t.error_id)
              no == parse_u64(t.command_no)
          IN IF ~IsSome(id) \/ ~IsSome(no) THEN None
             ELSE Some([source |-> MpdErrorType(Unwrap(id)),
                        msg |-> t.msg,
                        command_list_no |-> Unwrap(no),
                        current_command |-> t.current_command])

ReadOk(l) == [l EXCEPT !.res = "ok"]

ReadErr(l, why) == [l EXCEPT !.res = "err", !.e = why]

\* fields.push((name, value)): duplicates are kept
Push(fields, f) == Append(fields, f)

\* one turn of the loop: a line is read, then it ends the response (OK),
\* fails it (ACK, or a line that is no field), or gives one more field; a
\* field named binary goes on to the payload. The error of an ACK line is
\* the MpdError parsed from it ("ack", kept in out), or the error of
\* parse_error_line when the line does not parse ("ackline")
ReadLine(t) ==
  /\ pc[t] = "rr_line"
  /\ LET l == loc[t]
         buf == read_line(l.r)
         rest == [l EXCEPT !.r = Skip(l.r, Len(buf))]
         f == parse_line(buf)
     IN IF starts_with(buf, <<"O", "K">>)
          THEN /\ loc' = [loc EXCEPT ![t] = ReadOk(rest)]
               /\ pc' = [pc EXCEPT ![t] = "rr_done"]
        ELSE IF starts_with(buf, <<"A", "C", "K">>)
          THEN /\ loc' = [loc EXCEPT ![t] =
                           IF IsSome(parse_error_line(buf))
                           THEN [ReadErr(rest, "ack") EXCEPT !.out = parse_error_line(buf)]
                           ELSE ReadErr(rest, "ackline")]
               /\ pc' = [pc EXCEPT ![t] = "rr_done"]
        ELSE IF ~IsSome(f)
          THEN /\ loc' = [loc EXCEPT ![t] = ReadErr(rest, "line")]
               /\ pc' = [pc EXCEPT ![t] = "rr_done"]
        ELSE LET got == [rest EXCEPT !.fields = Push(@, Unwrap(f))]
                 name == Unwrap(f)[1]
                 len == parse_u64(Unwrap(f)[2])
             IN IF name # <<"b", "i", "n", "a", "r", "y">>
                  THEN /\ loc' = [loc EXCEPT ![t] = got]
                       /\ pc' = pc
                ELSE IF ~IsSome(len)
                  THEN /\ loc' = [loc EXCEPT ![t] = ReadErr(got, "len")]
                       /\ pc' = [pc EXCEPT ![t] = "rr_done"]
                ELSE /\ loc' = [loc EXCEPT ![t] = [got EXCEPT !.len = Unwrap(len)]]
                     /\ pc' = [pc EXCEPT ![t] = "rr_binary"]
  /\ UNCHANGED <<mpd, pending, changes, faults, alive, qlock, slock, state,
                 rids, written, lastNew, files, bus, sub, calls>>

\* read_exact of len bytes: the payload, whatever the bytes are; the stream
\* ending before that is an error
ReadBinary(t) ==
  /\ pc[t] = "rr_binary"
  /\ LET l == loc[t]
     IN IF Len(l.r) >= l.len
          THEN /\ loc' = [loc EXCEPT ![t] = [l EXCEPT !.binary = Some(Take(l.r, l.len)),
                                                      !.r = Skip(l.r, l.len)]]
               /\ pc' = [pc EXCEPT ![t] = "rr_newline"]
          ELSE /\ loc' = [loc EXCEPT ![t] = ReadErr([l EXCEPT !.r = <<>>], "eof")]
               /\ pc' = [pc EXCEPT ![t] = "rr_done"]
  /\ UNCHANGED <<mpd, pending, changes, faults, alive, qlock, slock, state,
                 rids, written, lastNew, files, bus, sub, calls>>

ReadNewlineKeeps(t) ==
  /\ pc[t] = "rr_newline"
  /\ pc' = [pc EXCEPT ![t] = "rr_last"]
  /\ UNCHANGED <<mpd, pending, changes, faults, alive, qlock, slock, state,
                 rids, written, lastNew, files, bus, sub, calls, loc>>

\* read_exact of one byte, which is not looked at
ReadNewline(t) ==
  /\ pc[t] = "rr_newline"
  /\ LET l == loc[t]
     IN IF Len(l.r) >= 1
          THEN /\ loc' = [loc EXCEPT ![t] = [l EXCEPT !.r = Skip(l.r, 1)]]
               /\ pc' = [pc EXCEPT ![t] = "rr_last"]
          ELSE /\ loc' = [loc EXCEPT ![t] = ReadErr(l, "eof")]
               /\ pc' = [pc EXCEPT ![t] = "rr_done"]
  /\ UNCHANGED <<mpd, pending, changes, faults, alive, qlock, slock, state,
                 rids, written, lastNew, files, bus, sub, calls>>

\* the line after the payload: OK ends the response, anything else fails it
ReadLast(t) ==
  /\ pc[t] = "rr_last"
  /\ LET l == loc[t]
         buf == read_line(l.r)
         rest == [l EXCEPT !.r = Skip(l.r, Len(buf))]
     IN loc' = [loc EXCEPT ![t] = IF starts_with(buf, <<"O", "K">>) THEN ReadOk(rest)
                                  ELSE ReadErr(rest, "framing")]
  /\ pc' = [pc EXCEPT ![t] = "rr_done"]
  /\ UNCHANGED <<mpd, pending, changes, faults, alive, qlock, slock, state,
                 rids, written, lastNew, files, bus, sub, calls>>

\* a number below 100 in decimal digits
Decimal(n) ==
  IF n < 10 THEN <<Digits[n + 1]>>
  ELSE <<Digits[(n \div 10) + 1], Digits[(n % 10) + 1]>>

\* what follows `ACK ` on an error line: `[code@list_no]`, the gap before
\* the command block, `{command}`, and the message with what leads it
ErrorText(code, list_no, command, msg, gap, lead) ==
  <<"[">> \o Decimal(code) \o <<"@">> \o Decimal(list_no) \o <<"]">> \o gap
    \o <<"{">> \o command \o <<"}">> \o lead \o msg

\* the line `ACK [<code>@<list_no>] {<command>} <message>\n` of the protocol
ErrorLine(code, list_no, command, msg) ==
  <<"A", "C", "K", " ">> \o ErrorText(code, list_no, command, msg, <<" ">>, <<" ">>)
    \o <<"\n">>

AckItem(text) == [kind |-> "ack", name |-> <<>>, value |-> text]

\* What a server may send, item by item: field lines, the two kinds of
\* last line, and raw bytes.
FieldLine(name, value) == [kind |-> "field", name |-> name, value |-> value]

Raw(bytes) == [kind |-> "raw", name |-> <<>>, value |-> bytes]

Items ==
  {FieldLine(<<"f">>, <<"x">>), FieldLine(<<"f", "2">>, <<"x">>),
   FieldLine(<<"b", "i", "n", "a", "r", "y">>, <<"1">>),
   FieldLine(<<"b", "i", "n", "a", "r", "y">>, <<"2">>),
   FieldLine(<<"b", "i", "n", "a", "r", "y">>, <<"x">>),
   [kind |-> "ok", name |-> <<>>, value |-> <<>>],
   AckItem(ErrorText(5, 0, <<"p">>, <<"m">>, <<" ">>, <<" ">>)),
   AckItem(ErrorText(5, 0, <<"p">>, <<"7">>, <<>>, <<>>)),
   Raw(<<"x">>), Raw(<<"\n">>), Raw(<<"x", "\n">>)}

\* the bytes of an item on the wire
Wire(it) ==
  CASE it.kind = "field" -> it.name \o <<":", " ">> \o it.value \o <<"\n">>
    [] it.kind = "ok" -> <<"O", "K", "\n">>
    [] it.kind = "ack" -> <<"A", "C", "K", " ">> \o it.value \o <<"\n">>
    [] OTHER -> it.value

RECURSIVE Stream(_)
Stream(items) ==
  IF items = <<>> THEN <<>> ELSE Wire(Head(items)) \o Stream(Tail(items))

\* A caller has written its command and flushed; it holds both locks and
\* is about to read the response. Nothing else runs.
InitFrame ==
  /\ mpd = InitialStatus
  /\ pending = {}
  /\ changes = 0
  /\ faults = 0
  /\ alive = [c \in Conns |-> TRUE]
  /\ qlock \in Callers
  /\ slock = qlock
  /\ state = MpdStateFrom(InitialStatus, None)
  /\ rids = 0
  /\ written = <<>>
  /\ lastNew = MpdStateFrom(InitialStatus, None)
  /\ files = {}
  /\ bus = [buf |-> <<>>, tail |-> 0]
  /\ sub = [s \in Subs |-> NoSub]
  /\ calls = 0
  /\ pc = [t \in Tasks |-> IF t = "ping" THEN "p_sleep"
                           ELSE IF t = "idle" THEN "i_idle" ELSE "rr_line"]
  /\ \E n \in 0..MaxItems : \E input \in [1..n -> Items] :
       loc = [t \in Tasks |-> IF t \in Callers
                              THEN [NoLoc EXCEPT !.op = "issue_command",
                                                 !.input = input,
                                                 !.r = Stream(input)]
                              ELSE NoLoc]

NextFrame ==
  \/ \E t \in Callers : ReadLine(t)
  \/ \E t \in Callers : ReadBinary(t)
  \/ \E t \in Callers : ReadNewline(t)
  \/ \E t \in Callers : ReadLast(t)

SpecFrame == InitFrame /\ [][NextFrame]_vars



(* ------------- two commands in a row on the query connection --------- *)
\* The backend answers each command with a reply of the protocol: field
\* lines, then the OK line or an ACK line; a field name may have a digit.
\* The first command is the `status` of update_status (its error is
\* returned with `?`, lines 94-96 and 160) or a command of
\* MpdStateServer::issue_command (its error is followed by a reconnect,
\* lines 104-107). The next command on the connection - of the same call
\* or of the next user of the mutex - is written to the same stream.
Replies ==
  {s \in UNION {[1..n -> Items] : n \in 1..MaxItems} :
     /\ s[Len(s)].kind \in {"ok", "ack"}
     /\ \A i \in 1..(Len(s) - 1) : s[i].kind = "field" /\ s[i].name # <<"b", "i", "n", "a", "r", "y">>}

\* the errors of read_response that leave a part of the reply unread
PartWay == {"line", "len", "eof", "framing"}

\* MpdStateServer::issue_command, lines 104-106: reconnect_until_success
\* replaces the stream, and what was unread is gone with the old one
AlignReconnect(t) ==
  /\ pc[t] = "rr_done"
  /\ loc[t].res = "err"
  /\ loc[t].op = "issue_command"
  /\ loc[t].reconns = 0
  /\ loc' = [loc EXCEPT ![t] = [@ EXCEPT !.r = <<>>, !.reconns = 1]]
  /\ UNCHANGED <<backendVars, ioVars, lockVars, snapVars, files, bus, sub, calls, pc>>

\* MpdClient::issue_command, lines 88-97: the next command is written and
\* the backend sends its reply after what the stream still holds
AlignNext(t) ==
  /\ pc[t] = "rr_done"
  /\ loc[t].sends = 1
  /\ loc[t].res = "ok" \/ loc[t].op = "update_status" \/ loc[t].reconns = 1
  /\ \E reply \in Replies :
       loc' = [loc EXCEPT ![t] = [@ EXCEPT !.first = IF loc[t].res = "ok" THEN "ok"
                                                    ELSE loc[t].e,
                                          !.stale = loc[t].r,
                                          !.r = loc[t].r \o Stream(reply),
                                          !.input = reply,
                                          !.fields = <<>>, !.binary = None, !.len = 0,
                                          !.res = "", !.e = "", !.out = None,
                                          !.sends = 2]]
  /\ pc' = [pc EXCEPT ![t] = "rr_line"]
  /\ UNCHANGED <<backendVars, ioVars, lockVars, snapVars, files, bus, sub, calls>>

InitAlign ==
  /\ mpd = InitialStatus
  /\ pending = {}
  /\ changes = 0
  /\ faults = 0
  /\ alive = [c \in Conns |-> TRUE]
  /\ qlock \in Callers
  /\ slock = qlock
  /\ state = MpdStateFrom(InitialStatus, None)
  /\ rids = 0
  /\ written = <<>>
  /\ lastNew = MpdStateFrom(InitialStatus, None)
  /\ files = {}
  /\ bus = [buf |-> <<>>, tail |-> 0]
  /\ sub = [s \in Subs |-> NoSub]
  /\ calls = 0
  /\ pc = [t \in Tasks |-> IF t = "ping" THEN "p_sleep"
                           ELSE IF t = "idle" THEN "i_idle"
                           ELSE IF t \in Callers THEN "rr_line" ELSE "c_idle"]
  /\ \E reply \in Replies : \E op \in {"issue_command", "update_status"} :
       loc = [t \in Tasks |-> IF t \in Callers
                              THEN [NoLoc EXCEPT !.op = op, !.input = reply,
                                                 !.r = Stream(reply), !.sends = 1]
                              ELSE NoLoc]

NextAlign ==
  \/ \E t \in Callers : ReadLine(t)
  \/ \E t \in Callers : AlignReconnect(t)
  \/ \E t \in Callers : AlignNext(t)

SpecAlign == InitAlign /\ [][NextAlign]_vars



(* ------------------ the idle task over a failing connection ----------- *)
\* The idle task and the backend; the idle connection may break and a
\* command may be answered with an ACK line. One receiver has subscribed.
InitOutage ==
  /\ mpd = InitialStatus
  /\ pending = {}
  /\ changes = MaxChanges
  /\ faults = MaxFaults
  /\ alive = [c \in Conns |-> TRUE]
  /\ qlock = NoTask
  /\ slock = NoTask
  /\ state = MpdStateFrom(InitialStatus, None)
  /\ rids = 0
  /\ written = <<>>
  /\ lastNew = MpdStateFrom(InitialStatus, None)
  /\ files = {}
  /\ bus = [buf |-> <<>>, tail |-> 0]
  /\ sub = [s \in Subs |-> IF s = 1 THEN [NoSub EXCEPT !.on = TRUE] ELSE NoSub]
  /\ calls = 0
  /\ pc = [t \in Tasks |-> IF t = "ping" THEN "p_sleep"
                           ELSE IF t = "idle" THEN "i_idle" ELSE "c_idle"]
  /\ loc = [t \in Tasks |-> NoLoc]

NextOutage ==
  \/ BackendChange
  \/ Drop("idle")
  \/ IssueWrite("idle")
  \/ ReconnectFail("idle")
  \/ ReconnectOk("idle")
  \/ IdleOk
  \/ IdleErr
  \/ IdleSkip
  \/ IdleTracklist
  \/ IdleRefresh
  \/ IdleDone
  \/ IdleReconnected
  \/ IdleRefreshOk
  \/ IdleRefreshErr
  \/ RefreshStatusOk("idle")
  \/ RefreshSongOk("idle")
  \/ RefreshQueryErr("idle")
  \/ RefreshOld("idle")
  \/ ArtSongOk("idle")
  \/ ArtReadOk("idle")
  \/ ArtAlbOk("idle")
  \/ ArtAlbErr("idle")
  \/ ArtMoreOk("idle")
  \/ ArtMoreNoBinary("idle")
  \/ ArtFlush("idle")
  \/ ArtQueryErr("idle")
  \/ RefreshWrite("idle")
  \/ RefreshEmit("idle")

SpecOutage == InitOutage /\ [][NextOutage]_vars



(* ------------------ a reply cut short by the end of file -------------- *)
\* The backend sends a reply of the protocol - field lines, then the OK
\* line or an ACK line, or field lines, a binary field with its payload
\* and newline, and the OK line - and closes the stream after `cut` of its
\* bytes. A read at the end of the stream gives no byte.
FullReplies ==
  {s \in UNION {[1..n -> Items] : n \in 1..MaxItems} :
     \E k \in 0..(Len(s) - 1) :
       /\ \A i \in 1..k : s[i].kind = "field" /\ s[i].name # <<"b", "i", "n", "a", "r", "y">>
       /\ \/ k = Len(s) - 1 /\ s[Len(s)].kind \in {"ok", "ack"}
          \/ /\ k < Len(s) - 1
             /\ s[Len(s)].kind = "ok"
             /\ s[k + 1].kind = "field"
             /\ s[k + 1].name = <<"b", "i", "n", "a", "r", "y">>
             /\ IsSome(parse_u64(s[k + 1].value))
             /\ \A i \in (k + 2)..(Len(s) - 1) : s[i].kind = "raw"
             /\ LET raw == Stream(SubSeq(s, k + 2, Len(s) - 1))
                IN /\ Len(raw) = Unwrap(parse_u64(s[k + 1].value)) + 1
                   /\ raw[Len(raw)] = "\n"}

InitEof ==
  /\ mpd = InitialStatus
  /\ pending = {}
  /\ changes = 0
  /\ faults = 0
  /\ alive = [c \in Conns |-> TRUE]
  /\ qlock \in Callers
  /\ slock = qlock
  /\ state = MpdStateFrom(InitialStatus, None)
  /\ rids = 0
  /\ written = <<>>
  /\ lastNew = MpdStateFrom(InitialStatus, None)
  /\ files = {}
  /\ bus = [buf |-> <<>>, tail |-> 0]
  /\ sub = [s \in Subs |-> NoSub]
  /\ calls = 0
  /\ pc = [t \in Tasks |-> IF t = "ping" THEN "p_sleep"
                           ELSE IF t = "idle" THEN "i_idle"
                           ELSE IF t \in Callers THEN "rr_line" ELSE "c_idle"]
  /\ \E reply \in FullReplies : \E k \in 0..(Len(Stream(reply)) - 1) :
       loc = [t \in Tasks |-> IF t \in Callers
                              THEN [NoLoc EXCEPT !.op = "issue_command",
                                                 !.input = reply,
                                                 !.r = Take(Stream(reply), k),
                                                 !.cut = k]
                              ELSE NoLoc]

SpecEof == InitEof /\ [][NextFrame]_vars


(* ------------------------ the dispatch of idle() ---------------------- *)
\* The idle command has returned a response of up to MaxEntries fields:
\* `changed` fields naming the five subsystems asked for or another one,
\* and a field of another name. The idle task handles them; one receiver
\* has subscribed, the backend does not change and no connection fails.
MaxEntries == 3

IdleFields ==
  {<<"changed", s>> : s \in {"stored_playlist", "playlist", "player", "mixer",
                             "options", "output"}}
    \cup {<<"volume", "player">>}

InitIdle ==
  /\ mpd = InitialStatus
  /\ pending = {}
  /\ changes = 0
  /\ faults = 0
  /\ alive = [c \in Conns |-> TRUE]
  /\ qlock = NoTask
  /\ slock = NoTask
  /\ state = MpdStateFrom(InitialStatus, None)
  /\ rids = 0
  /\ written = <<>>
  /\ lastNew = MpdStateFrom(InitialStatus, None)
  /\ files = {}
  /\ bus = [buf |-> <<>>, tail |-> 0]
  /\ sub = [s \in Subs |-> IF s = 1 THEN [NoSub EXCEPT !.on = TRUE] ELSE NoSub]
  /\ calls = 0
  /\ pc = [t \in Tasks |-> IF t = "ping" THEN "p_sleep"
                           ELSE IF t = "idle" THEN "i_disp" ELSE "c_idle"]
  /\ \E n \in 0..MaxEntries : \E res \in [1..n -> IdleFields] :
       loc = [t \in Tasks |-> IF t = "idle" THEN [NoLoc EXCEPT !.todo = res]
                              ELSE NoLoc]

NextIdle ==
  \/ IdleSkip
  \/ IdleTracklist
  \/ IdleRefresh
  \/ IdleDone
  \/ IdleRefreshOk
  \/ IssueWrite("idle")
  \/ RefreshStatusOk("idle")
  \/ RefreshOld("idle")
  \/ RefreshWrite("idle")
  \/ RefreshEmit("idle")

SpecIdle == InitIdle /\ [][NextIdle]_vars

(* --------------------------- the pure functions ----------------------- *)
\* A caller is about to apply one function to an argument drawn from a
\* bounded set; loc[t].arg is the argument, loc[t].out the value returned.
\* Nothing else runs.
InitCall(at, args) ==
  /\ mpd = InitialStatus
  /\ pending = {}
  /\ changes = 0
  /\ faults = 0
  /\ alive = [c \in Conns |-> TRUE]
  /\ qlock = NoTask
  /\ slock = NoTask
  /\ state = MpdStateFrom(InitialStatus, None)
  /\ rids = 0
  /\ written = <<>>
  /\ lastNew = MpdStateFrom(InitialStatus, None)
  /\ files = {}
  /\ bus = [buf |-> <<>>, tail |-> 0]
  /\ sub = [s \in Subs |-> NoSub]
  /\ calls = 0
  /\ pc = [t \in Tasks |-> IF t = "ping" THEN "p_sleep"
                           ELSE IF t = "idle" THEN "i_idle" ELSE at]
  /\ \E a \in args :
       loc = [t \in Tasks |-> IF t \in Callers THEN [NoLoc EXCEPT !.arg = Some(a)]
                              ELSE NoLoc]

\* the call returns
Apply(t, at, done, value) ==
  /\ pc[t] = at
  /\ pc' = [pc EXCEPT ![t] = done]
  /\ loc' = [loc EXCEPT ![t].out = value]
  /\ UNCHANGED <<mpd, pending, changes, faults, alive, qlock, slock, state,
                 rids, written, lastNew, files, bus, sub, calls>>

\* the error lines drawn: every code the mapping names and one it does not,
\* with and without the blanks around the command block
Codes == {1, 2, 3, 4, 50, 5}

ListNos == {0, 1}

Commands == {<<>>, <<"p">>, <<"p", "_", "q">>}

Messages == {<<>>, <<"m">>, <<"7">>}

ErrorLines ==
  {<<"A", "C", "K", " ">> \o ErrorText(c, n, cmd, msg, gap, lead) \o <<"\n">> :
     c \in Codes, n \in ListNos, cmd \in Commands, msg \in Messages,
     gap \in {<<>>, <<" ">>}, lead \in {<<>>, <<" ">>}}

ParseErrorLine(t) ==
  Apply(t, "pe_call", "pe_done", parse_error_line(Unwrap(loc[t].arg)))

InitErrorLine == InitCall("pe_call", ErrorLines)

NextErrorLine == \E t \in Callers : ParseErrorLine(t)

SpecErrorLine == InitErrorLine /\ [][NextErrorLine]_vars

\* the inputs of parse_line drawn: every string of up to MaxLine characters
\* over a letter, the hyphen, the two characters of the separator and the
\* newline
MaxLine == 6

LineChars == {"a", "-", ":", " ", "\n"}

Lines == UNION {[1..n -> LineChars] : n \in 0..MaxLine}

ParseLine(t) == Apply(t, "pl_call", "pl_done", parse_line(Unwrap(loc[t].arg)))

InitLine == InitCall("pl_call", Lines)

NextLine == \E t \in Callers : ParseLine(t)

SpecLine == InitLine /\ [][NextLine]_vars

\* The status responses drawn for MpdState::from: the values of the
\* fields, and the set of the fields the response comes without (at most
\* MaxLacks of them). A response without a current song lacks song and
\* songid; the values drawn for them are then not looked at.
MaxLacks == 2

StatusFields ==
  {"state", "repeat", "single", "random", "volume", "elapsed", "duration",
   "song", "songid", "nextsong", "nextsongid", "playlistlength"}

Statuses ==
  [state : {"play", "pause", "stop"}, elapsed : {0, 1}, repeat : {0, 1},
   single : {0, 1}, random : {0, 1}, volume : Volumes, song : {Some(<<0, 1>>)},
   nextsong : {Some(<<1, 2>>)}, playlistlength : {1}]

StatusResponses ==
  [status : Statuses,
   lacks : {L \in SUBSET StatusFields : Cardinality(L) <= MaxLacks}]

\* one of the two fields is enough
EitherPresent(lacks, a, b) == a \notin lacks \/ b \notin lacks

\* lines 115 and 121: a.is_some() && b.is_some()
BothPresent(lacks, a, b) == a \notin lacks /\ b \notin lacks

\* MpdState::from(status, metadata) for a status response that may lack
\* fields: None for the error, Some(snapshot) otherwise
MpdState_from(status, lacks, metadata) ==
  IF ~FromOk(status, lacks) THEN None
  ELSE Some([MpdStateFrom(status, metadata) EXCEPT
               !.song = IF BothPresent(lacks, "song", "songid")
                        THEN status.song ELSE None,
               !.next_song = IF BothPresent(lacks, "nextsong", "nextsongid")
                             THEN status.nextsong ELSE None,
               !.playlistlength = IF "playlistlength" \in lacks THEN 0
                                  ELSE status.playlistlength])

FromStatus(t) ==
  Apply(t, "fs_call", "fs_done",
        MpdState_from(Unwrap(loc[t].arg).status, Unwrap(loc[t].arg).lacks, None))

InitStatus == InitCall("fs_call", StatusResponses)

NextStatus == \E t \in Callers : FromStatus(t)

SpecStatus == InitStatus /\ [][NextStatus]_vars

\* The responses drawn for field_map: up to MaxFields fields over two
\* names and three values.
MaxFields == 3

FieldLists ==
  UNION {[1..n -> {"Artist", "Title"} \X {"x", "y", "z"}] : n \in 0..MaxFields}

\* res.entry(name).or_insert_with(|| vec![value]).push(value): a name not
\* yet in the map is entered with the value, and then the value is pushed
Entered(res, name, value) ==
  IF name \in DOMAIN res THEN [res EXCEPT ![name] = Append(@, value)]
  ELSE [n \in DOMAIN res \cup {name} |->
          IF n = name THEN Append(<<value>>, value) ELSE res[n]]

\* MpdResponse::field_map: the fields are entered one by one, first to last
RECURSIVE field_map(_)
field_map(fields) ==
  IF fields = <<>> THEN [n \in {} |-> <<>>]
  ELSE LET last == fields[Len(fields)]
       IN Entered(field_map(Take(fields, Len(fields) - 1)), last[1], last[2])

FieldMap(t) == Apply(t, "fm_call", "fm_done", Some(field_map(Unwrap(loc[t].arg))))

InitFieldMap == InitCall("fm_call", FieldLists)

NextFieldMap == \E t \in Callers : FieldMap(t)

SpecFieldMap == InitFieldMap /\ [][NextFieldMap]_vars



(* ----------------------- MpdStateServer::init ------------------------- *)
\* The constructor on the task that calls it: the query client is
\* connected, nothing is spawned yet, the backend is in any status it can
\* be in when the program starts, and it may change meanwhile.
Unspawned == "unspawned"

\* the statuses the backend may have at startup
StartStatuses ==
  {InitialStatus} \cup {ch[1] : ch \in BackendChanges(InitialStatus)}
    \cup {[InitialStatus EXCEPT !.state = "play", !.song = Some(q)] : q \in Songs}

\* line 37: the status response arrives; line 38: MpdState::from with no
\* metadata; line 39: update_album_art is called
InitStatusOk(t) ==
  /\ Reading(t, "in_status")
  /\ "ok" \in Outcomes(ConnOf(t))
  /\ \E lk \in StatusLacks(faults) :
       /\ faults' = IF lk = {} THEN faults ELSE faults - 1
       /\ IF FromOk(mpd, lk)
          THEN /\ loc' = [loc EXCEPT ![t] = [@ EXCEPT !.io = "none",
                                                !.new = Some(MpdStateFrom(mpd, None))]]
               /\ pc' = [pc EXCEPT ![t] = "art_song"]
          ELSE /\ loc' = [loc EXCEPT ![t] = [Failed(@) EXCEPT !.bad = TRUE]]
               /\ pc' = [pc EXCEPT ![t] = "in_failed"]
  /\ UNCHANGED alive
  /\ UNCHANGED <<backendVars, lockVars, snapVars, files, bus, sub, calls>>

\* line 37: the status query fails and init returns the error
InitStatusErr(t) ==
  /\ Reading(t, "in_status")
  /\ \E o \in Outcomes(ConnOf(t)) \ {"ok"} : ReadDone(t, o)
  /\ loc' = [loc EXCEPT ![t] = Failed(@)]
  /\ pc' = [pc EXCEPT ![t] = "in_failed"]
  /\ UNCHANGED <<backendVars, lockVars, snapVars, files, bus, sub, calls>>

\* lines 42-83: the snapshot is put in the Arc<RwLock>, the tasks are
\* spawned, the server is returned
InitState(t) ==
  /\ pc[t] = "in_state"
  /\ state' = Unwrap(loc[t].new)
  /\ lastNew' = Unwrap(loc[t].new)
  /\ loc' = [loc EXCEPT ![t] = NoLoc]
  /\ pc' = [pc EXCEPT ![t] = "c_idle", !["ping"] = "p_sleep", !["idle"] = "i_idle"]
  /\ UNCHANGED <<backendVars, ioVars, lockVars, rids, written, files, bus, sub, calls>>

InitInit ==
  /\ mpd \in StartStatuses
  /\ pending = {}
  /\ changes = MaxChanges
  /\ faults = MaxFaults
  /\ alive = [c \in Conns |-> TRUE]
  /\ qlock = NoTask
  /\ slock = NoTask
  /\ state = MpdStateFrom(InitialStatus, None)
  /\ rids = 0
  /\ written = <<>>
  /\ lastNew = MpdStateFrom(InitialStatus, None)
  /\ files = {}
  /\ bus = [buf |-> <<>>, tail |-> 0]
  /\ sub = [s \in Subs |-> NoSub]
  /\ calls = 0
  /\ pc = [t \in Tasks |-> IF t \in Callers THEN "in_status" ELSE Unspawned]
  /\ loc = [t \in Tasks |-> IF t \in Callers THEN [NoLoc EXCEPT !.op = "init"] ELSE NoLoc]

\* the backend changes only while init runs: the idle connection does not
\* exist yet
InitBackendChange ==
  /\ \E t \in Callers : pc[t] \notin {"c_idle", "in_failed", "panicked"}
  /\ BackendChange

NextInit ==
  \/ InitBackendChange
  \/ Drop("query")
  \/ \E t \in Callers : IssueWrite(t)
  \/ \E t \in Callers : InitStatusOk(t)
  \/ \E t \in Callers : InitStatusErr(t)
  \/ \E t \in Callers : ArtSongOk(t)
  \/ \E t \in Callers : ArtNoSong(t)
  \/ \E t \in Callers : ArtReadOk(t)
  \/ \E t \in Callers : ArtAlbOk(t)
  \/ \E t \in Callers : ArtAlbErr(t)
  \/ \E t \in Callers : ArtMoreOk(t)
  \/ \E t \in Callers : ArtMoreNoBinary(t)
  \/ \E t \in Callers : ArtFlush(t)
  \/ \E t \in Callers : ArtQueryErr(t)
  \/ \E t \in Callers : InitState(t)

SpecInit == InitInit /\ [][NextInit]_vars



(* --------------- the handlers of PlayerInterface and the locks -------- *)
\* Two method calls served at the same time, each Previous (SetPosition
\* takes the same guards in the same order) or Position (Play ends with the
\* same update_status under the server guard), and the ping task; the
\* connections do not fail.
LockCalls == 2

\* previous, line 77 (set_position, line 127): the read guard of the
\* snapshot is taken and lives to the end of the function
PreviousRead(t) ==
  /\ pc[t] = "c_idle"
  /\ calls > 0
  /\ calls' = calls - 1
  /\ loc' = [loc EXCEPT ![t] = [NoLoc EXCEPT !.op = "issue_command", !.reading = TRUE]]
  /\ pc' = [pc EXCEPT ![t] = "h_wait"]
  /\ UNCHANGED <<backendVars, ioVars, lockVars, snapVars, files, bus, sub>>

\* previous, line 87 (set_position, line 132): self.mpdclient.lock().await
\* with the read guard alive
PreviousLock(t) ==
  /\ pc[t] = "h_wait"
  /\ LockFree(slock)
  /\ slock' = t
  /\ pc' = [pc EXCEPT ![t] = "m_lock"]
  /\ UNCHANGED <<backendVars, ioVars, qlock, snapVars, files, bus, sub, calls, loc>>

\* position, line 238: self.mpdclient.lock().await.update_status().await;
\* the read of line 239 follows the drop of the guards and changes nothing
Position(t) == CallStart(t, "update_status")

InitLocks ==
  /\ mpd = InitialStatus
  /\ pending = {}
  /\ changes = MaxChanges
  /\ faults = 0
  /\ alive = [c \in Conns |-> TRUE]
  /\ qlock = NoTask
  /\ slock = NoTask
  /\ state = MpdStateFrom(InitialStatus, None)
  /\ rids = 0
  /\ written = <<>>
  /\ lastNew = MpdStateFrom(InitialStatus, None)
  /\ files = {}
  /\ bus = [buf |-> <<>>, tail |-> 0]
  /\ sub = [s \in Subs |-> IF s = 1 THEN [NoSub EXCEPT !.on = TRUE] ELSE NoSub]
  /\ calls = LockCalls
  /\ pc = [t \in Tasks |-> IF t = "ping" THEN "p_sleep"
                           ELSE IF t = "idle" THEN "i_idle" ELSE "c_idle"]
  /\ loc = [t \in Tasks |-> NoLoc]

NextLocks ==
  \/ BackendChange
  \/ PingLock
  \/ PingOk
  \/ \E t \in Handlers \cup {"ping"} : IssueWrite(t)
  \/ \E t \in Handlers : PreviousRead(t)
  \/ \E t \in Handlers : PreviousLock(t)
  \/ \E t \in Handlers : Position(t)
  \/ \E t \in Handlers : QueryLock(t)
  \/ \E t \in Handlers : CmdFirstOk(t)
  \/ \E t \in Handlers : RefreshStatusOk(t)
  \/ \E t \in Handlers : RefreshSongOk(t)
  \/ \E t \in Handlers : RefreshOld(t)
  \/ \E t \in Handlers : ArtSongOk(t)
  \/ \E t \in Handlers : ArtReadOk(t)
  \/ \E t \in Handlers : ArtAlbOk(t)
  \/ \E t \in Handlers : ArtMoreOk(t)
  \/ \E t \in Handlers : ArtFlush(t)
  \/ \E t \in Handlers : RefreshWrite(t)
  \/ \E t \in Handlers : RefreshEmit(t)
  \/ \E t \in Handlers : UpdateStatusDone(t)
  \/ \E t \in Handlers : CallReturn(t)

\* a step of task t in this specification
StepLocks(t) == NextLocks /\ (pc'[t] # pc[t] \/ loc'[t] # loc[t])

\* the runtime keeps polling every task that can go on, and tokio's Mutex
\* serves its waiters in the order of their arrival: a task that can go
\* on again and again does go on
SpecLocks ==
  InitLocks /\ [][NextLocks]_vars /\ \A t \in Handlers \cup {"ping"} : SF_vars(StepLocks(t))


(* ------------------------------- claims ------------------------------- *)
Range(f) == {f[i] : i \in DOMAIN f}

InitialSnapshot == MpdStateFrom(InitialStatus, None)

\* C1: at most one command is in flight on the query connection, and the
\* task whose command is in flight holds the query lock from the write of
\* the request to the end of the response (ping, passthrough commands and
\* the queries of the refreshes of update_status and ready).
C1_OneCommandInFlight ==
  /\ Cardinality(InFlight("query")) <= 1
  /\ \A t \in InFlight("query") : qlock = t

\* the ping is in flight while a caller waits for the query lock
C1_Witness ==
  /\ "ping" \in InFlight("query")
  /\ \E t \in Callers : pc[t] = "m_lock" /\ loc[t].op = "update_status"

\* C2: an event of a refresh is in the channel, or in the hands of a
\* consumer about to read the snapshot, only when that refresh has written
\* its snapshot; the shared snapshot is the one of the latest write, so the
\* consumer reads the snapshot of that refresh or of one that wrote later.
C2_EventsAfterWrite ==
  /\ \A i \in DOMAIN bus.buf :
       bus.buf[i].rid = 0 \/ bus.buf[i].rid \in Range(written)
  /\ \A s \in Subs :
       sub[s].phase = "read" => sub[s].lastRid = 0 \/ sub[s].lastRid \in Range(written)
  /\ state = lastNew

\* a consumer holds an event of a refresh and is about to read a snapshot
\* that a later refresh has written
C2_Witness ==
  \E s \in Subs :
    /\ sub[s].phase = "read"
    /\ sub[s].lastRid \in Range(written)
    /\ written[Len(written)] # sub[s].lastRid

\* C3: with at least one receiver, the events a refresh has sent are exactly
\* the fields in which the snapshot it built differs from the snapshot it
\* read as old, one event per field.
C3_ExactDiff ==
  \A t \in Refreshers :
    pc[t] = "us_done" /\ loc[t].sent = Some(TRUE)
      => loc[t].ev = DiffEvents(Unwrap(loc[t].new), Unwrap(loc[t].old))

\* C4: issue_command sends the command at most twice and reconnects at most
\* once; it returns after one send and no reconnect when the first attempt
\* succeeds, and after exactly one reconnect and exactly one more send when
\* the first attempt fails with an I/O error.
C4_RetryOnce ==
  \A t \in Callers :
    loc[t].op = "issue_command" =>
      /\ loc[t].sends <= 2
      /\ loc[t].reconns <= 1
      /\ pc[t] = "m_cmd2" => loc[t].sends = 1 /\ loc[t].reconns = 1
      /\ pc[t] = "m_ret" /\ loc[t].first = "ok" =>
           loc[t].sends = 1 /\ loc[t].reconns = 0 /\ loc[t].res = "ok"
      /\ pc[t] = "m_ret" /\ loc[t].first = "io" =>
           loc[t].sends = 2 /\ loc[t].reconns = 1

\* the first attempt failed with an I/O error, the second one succeeded
C4_Witness ==
  \E t \in Callers :
    /\ pc[t] = "m_ret" /\ loc[t].first = "io"
    /\ loc[t].sends = 2 /\ loc[t].res = "ok"

\* C5: when the first attempt of issue_command is answered with an ACK line,
\* the connection is not re-opened and the command is not sent again.
C5_NoReconnectOnAck ==
  \A t \in Callers :
    loc[t].first = "ack" => loc[t].reconns = 0 /\ loc[t].sends = 1

\* C6: while reconnect_until_success runs, the attempts made are the failed
\* ones; when it returns after N failures it has made N + 1 attempts, has
\* logged the first-failure message once if N >= 1 and not at all if N = 0,
\* and the other message N - 1 times; the step that ends the loop is the
\* one that replaces the stream.
C6_Counts ==
  \A t \in Tasks :
    /\ pc[t] = "rc" => loc[t].att = loc[t].fails
    /\ pc[t] \in {"rc", "rc_done"} =>
         /\ loc[t].firstLog = (IF loc[t].fails >= 1 THEN 1 ELSE 0)
         /\ loc[t].laterLog = loc[t].fails - loc[t].firstLog
    /\ pc[t] = "rc_done" => loc[t].att = loc[t].fails + 1

C6_ReconnectUntilSuccess ==
  /\ []C6_Counts
  /\ [][\A t \in Tasks : pc[t] = "rc" /\ pc'[t] = "rc_done" => alive'[ConnOf(t)]]_vars

\* reconnect_until_success returns after two failed attempts
C6_Witness == \E t \in Tasks : pc[t] = "rc_done" /\ loc[t].fails = 2

\* C7: the shared snapshot is, in all its fields, the initial snapshot or
\* the snapshot built by the refresh that made the latest write.
C7_WholeSnapshot == state = lastNew

\* two refreshes have written, the second one a snapshot that differs from
\* the first one's
C7_Witness == Len(written) >= 2 /\ state # InitialSnapshot

RefreshCmds == {"status", "currentsong", "readpicture", "albumart"}

\* C8: the queries of every refresh are in flight on the query connection,
\* under the query lock, and the idle connection carries only the idle
\* command.
C8_RefreshOnQueryConnection ==
  /\ \A t \in Tasks :
       loc[t].io = "sent" /\ CmdAt(t) \in RefreshCmds
         => ConnOf(t) = "query" /\ qlock = t
  /\ \A t \in InFlight("idle") : CmdAt(t) = IDLE_CMD

\* C9: the events a receiver gets come in the order in which they were sent:
\* every event it receives was sent after the one it received before, and
\* after it subscribed.
C9_ReceivedInOrder ==
  [][\A s \in Subs :
       sub'[s].lastSeq # sub[s].lastSeq =>
         /\ sub'[s].lastSeq > sub[s].lastSeq
         /\ sub'[s].lastSeq <= bus.tail]_vars

\* a receiver that fell behind by more than the capacity has missed events
\* and received a later one
C9_Witness ==
  \E s \in Subs : sub[s].lagged /\ sub[s].phase = "read" /\ sub[s].lastSeq > Capacity

\* C10: a send never waits: wherever a task is about to send, the send can
\* be taken whatever the receivers have read, and a receiver that has not
\* fallen behind by more than the capacity loses nothing, whatever the
\* other receivers have read.
C10_SendNeverWaits ==
  /\ \A t \in Refreshers : pc[t] = "us_emit" => ENABLED RefreshEmit(t)
  /\ \A t \in Callers :
       pc[t] = "us_done" /\ loc[t].op = "ready" => ENABLED ReadySend(t)
  /\ \A s \in Subs :
       sub[s].on /\ bus.tail - sub[s].next <= Capacity => sub[s].next >= Oldest(bus)

\* one receiver has read nothing, more events than the capacity were sent,
\* every call has returned and the other receiver has received every event
C10_Witness ==
  /\ sub[2].on /\ sub[2].next = 0
  /\ bus.tail > Capacity
  /\ sub[1].next = bus.tail /\ ~sub[1].lagged
  /\ calls = 0 /\ \A t \in Callers : pc[t] = "c_idle"

\* the status response a refresh has read lacks a mandatory field
Aborted(t) == loc[t].bad /\ loc[t].op = "update_status"

C11_NoWrite ==
  \A t \in Callers :
    Aborted(t) =>
      /\ loc[t].rid \notin Range(written)
      /\ pc[t] \in {"us_song", "us_done", "m_ret"}
      /\ pc[t] \in {"us_done", "m_ret"} => loc[t].res = "err"

\* C11: a refresh whose status response lacks a mandatory field leaves the
\* shared snapshot, the channel and the art files as they are in every step
\* from the response to its return, never writes the snapshot, and returns
\* an error.
C11_AbortNoEffect ==
  /\ []C11_NoWrite
  /\ [][(\E t \in Callers : Aborted(t)) => UNCHANGED <<state, bus, files>>]_vars

\* the refresh has returned an error for a missing field while the snapshot
\* differs from the status of the backend and an art file exists
C11_Witness ==
  \E t \in Callers :
    /\ Aborted(t) /\ pc[t] = "m_ret" /\ loc[t].res = "err"
    /\ state.song # mpd.song
    /\ files # {}

\* C12: once a refresh has been aborted for a missing field, a status
\* query of another refresh is issued later on: the keepalive keeps
\* ticking, so a refresh at every tick means a refresh eventually.
C12_RefreshAfterAbort ==
  (\E t \in Callers : Aborted(t) /\ pc[t] = "m_ret")
    ~> (\E t \in Tasks : pc[t] = "us_status")

Referenced == IF IsSome(state.album_art) THEN {Unwrap(state.album_art)} ELSE {}

\* C14: when a refresh has sent a Song event and the shared snapshot names
\* an art file, that file exists.
C14_ArtFileExists ==
  \A t \in Callers :
    pc[t] = "us_done" /\ "Song" \in Range(loc[t].ev) => Referenced \subseteq files

\* C15: while a refresh that found a new song has not yet written its
\* snapshot, the art file the shared snapshot names has not been deleted.
C15_DeleteAfterWrite ==
  \A t \in Callers :
    /\ IsSome(loc[t].old) /\ IsSome(loc[t].new)
    /\ IsSome(Unwrap(loc[t].new).song)
    /\ Unwrap(loc[t].new).song # Unwrap(loc[t].old).song
    /\ loc[t].rid \notin Range(written)
    => Referenced \subseteq files

\* C16: when no refresh is running, the only art file that exists is the one
\* the shared snapshot names.
C16_NoStrayFile ==
  (\A t \in Refreshers : pc[t] \in {"c_idle", "i_idle"}) => files \subseteq Referenced

\* C17: a refresh whose art lookup returned without a binary chunk from
\* readpicture or albumart publishes a snapshot without album art.
C17_NoDataNoArt ==
  \A t \in Callers :
    loc[t].artres = "nodata" /\ pc[t] = "us_done" => state.album_art = None

\* C18: every continuation request is issued at the offset equal to the
\* number of bytes received so far and only while bytes are missing, and the
\* file that is flushed holds the bytes of the picture in order, as many as
\* the declared size.
C18_OffsetContinuation ==
  \A t \in Callers :
    /\ pc[t] \in {"art_more", "art_albmore"} =>
         /\ loc[t].offset = Len(loc[t].data)
         /\ Len(loc[t].data) < loc[t].size
    /\ pc[t] = "art_flush" /\ loc[t].data # <<>> =>
         loc[t].data = Bytes(0, loc[t].size)


BinaryName == <<"b", "i", "n", "a", "r", "y">>

Pairs(items) == [i \in 1..Len(items) |-> <<items[i].name, items[i].value>>]

\* C19: when the server sent k field lines, none named binary, and then a
\* line starting with OK, the response read has exactly those k pairs in
\* the order sent, duplicates included, no binary payload and no error,
\* and the stream stands right after the OK line.
C19_FieldsThenOk ==
  \A t \in Callers :
    pc[t] = "rr_done" =>
      LET l == loc[t]
      IN \A k \in 0..(Len(l.input) - 1) :
           /\ \A i \in 1..k : l.input[i].kind = "field" /\ l.input[i].name # BinaryName
           /\ l.input[k + 1].kind = "ok"
           => /\ l.res = "ok"
              /\ l.fields = Pairs(Take(l.input, k))
              /\ l.binary = None
              /\ l.r = Stream(Skip(l.input, k + 1))

\* a field line the parser takes: its name is made of name characters
Parsed(it) ==
  /\ it.kind = "field"
  /\ \A i \in 1..Len(it.name) : is_field_name_char(it.name[i])

\* C20: when a field named binary with the decimal value N has been read
\* and the stream holds N + 1 more bytes, the payload is exactly the next
\* N bytes, one more byte is consumed, and one more line is read: if it
\* starts with OK the response ends there with that payload, if not the
\* read fails with the framing error; either way the fields end with the
\* binary field and the stream stands right after that line.
C20_BinaryFraming ==
  \A t \in Callers :
    pc[t] = "rr_done" =>
      LET l == loc[t]
      IN \A j \in 1..Len(l.input) : \A N \in 0..9 :
           /\ \A i \in 1..(j - 1) : Parsed(l.input[i]) /\ l.input[i].name # BinaryName
           /\ l.input[j] = FieldLine(BinaryName, <<Digits[N + 1]>>)
           /\ Len(Stream(Skip(l.input, j))) >= N + 1
           => LET sent == Stream(Skip(l.input, j))
                  last == read_line(Skip(sent, N + 1))
              IN /\ l.fields = Pairs(Take(l.input, j))
                 /\ l.r = Skip(sent, N + 1 + Len(last))
                 /\ IF starts_with(last, <<"O", "K">>)
                      THEN l.res = "ok" /\ l.binary = Some(Take(sent, N))
                      ELSE l.res = "err" /\ l.e = "framing"

\* a payload of two bytes, the second a newline, was read and the OK line
\* after it ended the response
C20_Witness ==
  \E t \in Callers :
    /\ pc[t] = "rr_done"
    /\ loc[t].res = "ok"
    /\ loc[t].binary = Some(<<"x", "\n">>)
    /\ loc[t].r = <<>>

\* the MpdError the protocol's error line stands for
StructuredError(code, list_no, command, msg) ==
  [source |-> MpdErrorType(code), msg |-> msg, command_list_no |-> list_no,
   current_command |-> command]

\* C21: when the server sent field lines and then an ACK line, the read
\* fails with the MpdError parsed from that line, and the stream stands
\* right after the ACK line.
C21_AckStops ==
  \A t \in Callers :
    pc[t] = "rr_done" =>
      LET l == loc[t]
      IN \A k \in 0..(Len(l.input) - 1) :
           /\ \A i \in 1..k : Parsed(l.input[i]) /\ l.input[i].name # BinaryName
           /\ l.input[k + 1] = AckItem(ErrorText(5, 0, <<"p">>, <<"m">>, <<" ">>, <<" ">>))
           => /\ l.res = "err"
              /\ l.e = "ack"
              /\ l.out = Some(StructuredError(5, 0, <<"p">>, <<"m">>))
              /\ l.r = Stream(Skip(l.input, k + 1))

\* C22: for every line `ACK [<code>@<list_no>] {<command>} <message>\n`,
\* parse_error_line returns the MpdError with the mapped code, the list
\* index, the command and the message of the line.
C22_ErrorLineParsed ==
  \A t \in Callers :
    pc[t] = "pe_done" =>
      \A c \in Codes, n \in ListNos, cmd \in Commands, msg \in Messages :
        loc[t].arg = Some(ErrorLine(c, n, cmd, msg))
          => loc[t].out = Some(StructuredError(c, n, cmd, msg))

\* s is name ++ ": " ++ value ++ "\n" with a name of n characters, each a
\* letter, `_` or `-`, and a value without a newline
LineOf(s, n) ==
  /\ n + 3 <= Len(s)
  /\ \A i \in 1..n : s[i] \in Letters \cup {"_", "-"}
  /\ s[n + 1] = ":" /\ s[n + 2] = " "
  /\ s[Len(s)] = "\n"
  /\ \A i \in (n + 3)..(Len(s) - 1) : s[i] # "\n"

C24_RejectsMalformed ==
  \A t \in Callers :
    pc[t] = "pl_done" /\ IsSome(loc[t].out) =>
      \E n \in 1..Len(Unwrap(loc[t].arg)) : LineOf(Unwrap(loc[t].arg), n)

\* C25: in a snapshot built from a status response, the song is Some
\* exactly when the response has both song and songid, and the next song
\* is Some exactly when it has both nextsong and nextsongid.
C25_PairedIdentity ==
  \A t \in Callers :
    pc[t] = "fs_done" /\ IsSome(loc[t].out) =>
      LET lacks == Unwrap(loc[t].arg).lacks
          snap == Unwrap(loc[t].out)
      IN /\ IsSome(snap.song) <=> ("song" \notin lacks /\ "songid" \notin lacks)
         /\ IsSome(snap.next_song)
              <=> ("nextsong" \notin lacks /\ "nextsongid" \notin lacks)

\* a response with song but without songid gave a snapshot
C25_Witness ==
  \E t \in Callers :
    /\ pc[t] = "fs_done"
    /\ IsSome(loc[t].out)
    /\ Unwrap(loc[t].arg).lacks = {"songid"}
    /\ Unwrap(loc[t].out).song = None

\* C26: a status response without state, repeat, single or random, or with
\* the state play or pause and without volume, elapsed or duration, gives
\* an error and no snapshot.
C26_RejectsIncomplete ==
  \A t \in Callers :
    pc[t] = "fs_done" =>
      LET a == Unwrap(loc[t].arg)
      IN \/ a.lacks \cap {"state", "repeat", "single", "random"} # {}
         \/ /\ a.status.state \in {"play", "pause"}
            /\ a.lacks \cap {"volume", "elapsed", "duration"} # {}
         => loc[t].out = None

\* a response of a playing backend without duration was rejected
C26_Witness ==
  \E t \in Callers :
    /\ pc[t] = "fs_done"
    /\ Unwrap(loc[t].arg).status.state = "play"
    /\ Unwrap(loc[t].arg).lacks = {"duration"}
    /\ loc[t].out = None

\* C27: a status response that lacks only the volume gives a snapshot,
\* and the volume of that snapshot is no number.
C27_NoMixerAccepted ==
  \A t \in Callers :
    pc[t] = "fs_done" /\ Unwrap(loc[t].arg).lacks = {"volume"} =>
      /\ IsSome(loc[t].out)
      /\ Unwrap(loc[t].out).volume \notin 0..255

\* the values of the fields named n, in the order of the response
ValuesOf(fields, n) ==
  LET occ == SelectSeq(fields, LAMBDA f : f[1] = n)
  IN [i \in 1..Len(occ) |-> occ[i][2]]

\* C28: the map built from a response has the names of its fields as keys
\* and maps each name to the values of that name in the order received,
\* one entry per occurrence.
C28_OneEntryPerOccurrence ==
  \A t \in Callers :
    pc[t] = "fm_done" =>
      LET fields == Unwrap(loc[t].arg)
          m == Unwrap(loc[t].out)
      IN /\ DOMAIN m = {fields[i][1] : i \in 1..Len(fields)}
         /\ \A n \in DOMAIN m : m[n] = ValuesOf(fields, n)

\* C29: the idle task never stops: whatever the backend answers, the task
\* is in its loop, in idle(), or in reconnect_until_success.
C29_IdleNeverStops == pc["idle"] # "panicked"

C31_PingPositions ==
  /\ pc["ping"] \in {"p_sleep", "p_ping", "rc", "rc_done"}
  /\ pc["ping"] # "p_sleep" => qlock = "ping"

C31_Iteration ==
  /\ (pc["ping"] # "p_sleep" /\ pc'["ping"] = "p_sleep")
       => \/ /\ Reading("ping", "p_ping")
             /\ alive["query"]
             /\ faults' = faults
          \/ pc["ping"] = "rc_done"
  /\ (pc["ping"] # "rc_done" /\ pc'["ping"] = "rc_done")
       => pc["ping"] = "rc" /\ alive'["query"]
  /\ (pc["ping"] # "rc" /\ pc'["ping"] = "rc")
       => Reading("ping", "p_ping")
  /\ (loc["ping"].io # "sent" /\ loc'["ping"].io = "sent")
       => pc["ping"] = "p_ping" /\ qlock = "ping"

C31_KeepaliveLoop ==
  /\ []C31_PingPositions
  /\ [][C31_Iteration]_vars
  /\ (pc["ping"] = "p_ping") ~> (pc["ping"] = "p_sleep")
  /\ []<>(pc["ping"] = "p_ping")

\* the ping failed, a reconnect attempt failed, and the next one succeeded
C31_Witness ==
  /\ pc["ping"] = "rc_done"
  /\ loc["ping"].fails > 0
  /\ qlock = "ping"


(* C32: in update_album_art, readpicture at offset 0 is tried first;
   albumart is attempted whenever the readpicture attempt ended without
   binary data, and never when it brought binary data. *)
C32_MethodOrder ==
  [][\A t \in Refreshers :
       /\ (Reading(t, "art_read") /\ pc'[t] # "art_read")
            => IF loc'[t].data = <<>> THEN pc'[t] = "art_alb"
                                      ELSE pc'[t] \in {"art_more", "art_flush"}
       /\ (pc[t] # "art_alb" /\ pc'[t] = "art_alb")
            => pc[t] = "art_read" /\ loc'[t].data = <<>>
       /\ (pc[t] # "art_read" /\ pc'[t] = "art_read")
            => pc[t] = "art_song"]_vars


(* C33: the snapshot MpdStateServer::init builds has the metadata of the
   current song exactly when the status response reported an active song,
   as every status refresh does. *)
C33_InitialMetadata ==
  \A t \in Callers :
    (pc[t] = "c_idle" /\ pc["idle"] = "i_idle")
      => (IsSome(state.current_song) <=> IsSome(state.song))


(* C34: with no receiver on the channel, a refresh that finds changed
   fields writes the snapshot and returns Ok, the idle task goes on with
   the remaining `changed` entries, and it does not call
   reconnect_until_success because of it. *)
C34_NoSubscribers ==
  [][Receivers(sub) = 0 =>
       /\ (pc["idle"] = "us_emit" /\ pc'["idle"] # "us_emit")
            => (loc'["idle"].res = "ok" /\ state = lastNew)
       /\ (pc["idle"] # "rc" /\ pc'["idle"] = "rc")
            => Reading("idle", "i_idle")
       /\ (pc["idle"] # "i_idle" /\ pc'["idle"] = "i_idle")
            => loc["idle"].todo = <<>>]_vars


(* C35: the snapshots are written in the order in which the refreshes had
   their status responses: a refresh never writes after a refresh whose
   status response came later; and one backend change is announced by the
   events of one refresh only. *)
C35_OneAnnouncement ==
  MaxChanges - changes <= 1 =>
    \A t \in Refreshers : \A u \in Refreshers \ {t} :
      Range(loc[t].ev) \cap Range(loc[u].ev) = {}

C35_WriteOrder ==
  \A t \in Refreshers :
    (pc[t] = "us_write" /\ written' # written /\ pc'[t] # "us_write")
      => Range(written) \subseteq loc[t].before

C35_NeverBackwards == [][C35_WriteOrder /\ C35_OneAnnouncement']_vars



(* C36: the server mutex, the query mutex and the read/write lock of the
   snapshot never deadlock: a handler that holds a read guard and waits
   for the server mutex, and a handler that holds the server and query
   mutexes and waits to write the snapshot, both complete. *)
C36_BothComplete ==
  \A t \in Handlers : (pc[t] # "c_idle") ~> (pc[t] = "c_idle")


(* C37: the ping task holds the query mutex only from its lock() to the
   end of the ping cycle and of the reconnect that may follow, never while
   it sleeps; a caller that waits for the query mutex gets it. *)
C37_NotHeldAsleep == qlock = "ping" <=> pc["ping"] \in {"p_ping", "rc", "rc_done"}

C37_LockOnlyForCycle ==
  /\ []C37_NotHeldAsleep
  /\ \A t \in Callers : (pc[t] = "m_lock") ~> (qlock = t)

\* a caller waits for the query mutex while the ping task reconnects
C37_Witness ==
  \E t \in Callers : pc[t] = "m_lock" /\ qlock = "ping" /\ pc["ping"] = "rc"


(* C38: a response returned by issue_command holds only what the backend
   sent in reply to the command of that call, and after an issue_command
   that failed part-way through a reply no command is written to the
   connection before it is reconnected. *)
C38_Aligned ==
  \A t \in Callers :
    loc[t].sends = 2 =>
      /\ loc[t].first \in PartWay => loc[t].reconns = 1
      /\ (pc[t] = "rr_done" /\ loc[t].res = "ok")
           => loc[t].fields = Pairs(SubSeq(loc[t].input, 1, Len(loc[t].input) - 1))


(* C39: when reconnect_until_success has returned in the idle task, a
   status refresh runs before the next idle command is sent, so that a
   change the backend made during the outage reaches the snapshot. *)
C39_RefreshAfterReconnect ==
  [][(pc["idle"] = "rc_done" /\ pc'["idle"] # "rc_done")
       => pc'["idle"] = "us_status"]_vars


(* C40: when the backend closes the stream before the last line of a
   reply has begun or inside it before the bytes OK are complete - before
   the first line, between or inside field lines, inside the binary
   payload, before the final OK - read_response returns an error: every
   read that does not end the function lessens what is left of the finite
   stream and of the reads to do, so it returns after finitely many reads,
   and it returns no successful response. *)
C40_NoTruncatedSuccess ==
  \A t \in Callers :
    (pc[t] = "rr_done" /\ loc[t].cut < Len(Stream(loc[t].input)) - 1)
      => (loc[t].res = "err" /\ loc[t].e # "")

\* what read_response has left to do at most: the bytes of the stream and
\* the reads that follow its position
C40_Left(p, l) ==
  4 * Len(l.r) + (CASE p = "rr_line" -> 3 [] p = "rr_binary" -> 2
                    [] p = "rr_newline" -> 1 [] OTHER -> 0)

C40_Progress ==
  \A t \in Callers :
    pc'[t] # "rr_done" => C40_Left(pc'[t], loc'[t]) < C40_Left(pc[t], loc[t])

C40_EofIsError == []C40_NoTruncatedSuccess /\ [][C40_Progress]_vars

\* the stream ended inside the binary payload and read_exact failed
C40_Witness ==
  \E t \in Callers :
    /\ pc[t] = "rr_done"
    /\ loc[t].e = "eof"
    /\ loc[t].fields # <<>>
    /\ loc[t].cut < Len(Stream(loc[t].input)) - 1

=============================================================================
